---- MODULE Spec2Model ----
(***************************************************************************)
(* Model of the credential handling of aim (charlieyou/aim):               *)
(*   - fetchAccountUsage of the Claude, Codex and Gemini providers,        *)
(*   - refreshAccessToken of each provider,                                *)
(*   - updateJSONCredentials / writeFileAtomic (credentials.go),           *)
(*   - DetectCredentialSource, the credential loaders and FetchUsage.      *)
(* Under Spec one behaviour is the fetch of one account of one vendor.     *)
(* Under LoadSpec one behaviour is one run of main for one vendor: the     *)
(* detection of the credential source, the loader and the loop of          *)
(* FetchUsage over the loaded accounts.  FairSpec is Spec with the         *)
(* scheduling of the process.  Under JwtSpec one behaviour is the decoding *)
(* of the tokens of one Codex credential file, under RefreshParseSpec the  *)
(* parsing of one answer of the token endpoint, under NamesSpec one call   *)
(* of applyCodexDisplayNames and under TruncSpec one call of TruncateBody. *)
(* Under DirSpec a rewrite of a credential file runs next to the loader of *)
(* another vendor, and under MainSpec main collects the rows of the        *)
(* providers' goroutines.  The servers (quota                              *)
(* endpoint, token endpoint) and the file system are the environment:      *)
(* their answers are the inputs of the actions.                            *)
(***************************************************************************)
EXTENDS Integers, Sequences, FiniteSets, TLC

VARIABLES
    vendor,       \* which provider runs the fetch
    account,      \* fetchAccountUsage's (by-value) account parameter
    pc,           \* position of the fetch
    file,         \* the credential file at account.CredentialPath
    file0,        \* its content when the fetch started (history)
    tmp,          \* the temporary file of writeFileAtomic
    rr,           \* refreshAccessToken's parsed refresh response
    encoded,      \* updateJSONCredentials' encoded new content
    quotaSent,    \* bearer tokens of the quota requests sent so far
    refreshSent,  \* number of requests sent to the refresh endpoint
    refreshOK,    \* a refresh answer with 200 and an access token was seen
    tmpCreates,   \* number of temporary files created
    lastAns,      \* the latest answer of the quota endpoint (history)
    result,       \* outcome of the fetch
    ctxDone,      \* the caller's context is cancelled or past its deadline
    homeDir,      \* the home directory handed to the providers ("" = unknown)
    fs,           \* the credential files on disk
    fsChanges,    \* number of changes other processes made to fs in this run
    upc,          \* position of main / FetchUsage
    detected,     \* the value DetectCredentialSource returned at each use
    accounts,     \* the accounts the loader returned
    idx,          \* index of FetchUsage's loop over accounts
    outcomes,     \* how fetchAccountUsage ended for each account so far
    rows,         \* the rows FetchUsage has collected
    nativeRead,   \* the loader read the native credential file (history)
    fetchErr,     \* the error FetchUsage returns
    jAccess,      \* a Codex credential file's access token (a JWT)
    jID,          \* its id token (a JWT, or absent)
    jpc,          \* which operation was applied to the tokens
    jClaims,      \* what decodeJWTClaims returned for the access token
    jClientID,    \* the ClientID the loader stored on the account
    fnpc,         \* which function was applied to fnIn
    fnIn,         \* the input of a function checked on its own
    fnOut,        \* what the function returned
    dir,          \* the names in <homeDir>/.cli-proxy-api
    dir0,         \* the names it held when the goroutines started (history)
    wpc,          \* position of writeFileAtomic in the goroutine of vendor
    wtmp,         \* the name of its temporary file
    loader,       \* the vendor whose goroutine loads its credentials
    opc,          \* position of that loader
    seen,         \* what its DetectCredentialSource and its Glob returned
    allRows,      \* main's allRows
    mu,           \* the thread that holds main's mutex ("" = unlocked)
    wg,           \* the counter of main's WaitGroup
    mi,           \* index of main's loop over providerFactories
    tpc,          \* position of main and of each provider's goroutine
    snap,         \* the allRows each thread's append has read
    ret           \* what the constructor and FetchUsage of each provider gave

\* the variables of the fetch of one account, vendor apart
fkept == <<pc, file, file0, tmp, rr, encoded, quotaSent, refreshSent,
           refreshOK, tmpCreates, lastAns, result, ctxDone>>
fvars == <<account, fkept>>

\* the variables of main, the loaders and FetchUsage
uvars == <<homeDir, fs, fsChanges, upc, detected, accounts, idx, outcomes,
           rows, nativeRead, fetchErr>>

\* the variables of the decoding of the Codex tokens
jkept == <<jAccess, jID, jpc, jClaims, jClientID>>

\* the variables of the functions checked on their own
fnvars == <<fnpc, fnIn, fnOut>>

\* the variables of the directory shared by the goroutines of main
dvars == <<dir, dir0, wpc, wtmp, loader, opc, seen>>

\* the variables of main's aggregation of the providers' rows
mvars == <<allRows, mu, wg, mi, tpc, snap, ret>>

jvars == <<jkept, fnvars, dvars, mvars>>

vars == <<vendor, fvars, uvars, jvars>>

(***************************************************************************)
(* Bounds of the model.                                                    *)
(***************************************************************************)
MaxExpiresIn == 1   \* expires_in of a refresh answer ranges over 0..MaxExpiresIn
MaxLo        == 1   \* low part of the integers stored under an unknown key
MaxWindows   == 2   \* quota windows / buckets of a quota answer
Now          == 5   \* time.Now() of the credential update
OldTime      == 1   \* time stamp already stored in a credential file
MaxFiles     == 2   \* proxy credential files of one vendor
MaxFsChanges == 1   \* changes other processes make to the files during a run

Vendors == {"claude", "codex", "gemini"}

(***************************************************************************)
(* HTTP status codes the code distinguishes.                               *)
(***************************************************************************)
StatusOK           == 200
StatusUnauthorized == 401
StatusForbidden    == 403
\* some other answers of a server: another 2xx code and a 5xx code
OtherStatuses == {204, 500}
Statuses == {StatusOK, StatusUnauthorized, StatusForbidden} \cup OtherStatuses

(***************************************************************************)
(* JSON values of a credential file.  A number is the integer literal      *)
(* hi * 2^53 + lo; a time string is the RFC3339Nano text of instant v.     *)
(***************************************************************************)
JAbsent      == [t |-> "absent"]
JStr(s)      == [t |-> "str", s |-> s]
JNum(hi, lo) == [t |-> "num", hi |-> hi, lo |-> lo]
JObj         == [t |-> "obj"]

\* formatCredentialTime: UTC RFC3339Nano text of the instant, one text per instant
formatCredentialTime(ts) == [t |-> "time", v |-> ts]

(***************************************************************************)
(* Accounts.  Token = "" marks an unusable entry; LoadErr is set only on   *)
(* such an entry (the loaders return either a token or a load error).      *)
(* ClientID is the client id stored in a Gemini credential file (a Gemini  *)
(* account has no LoadErr: its loader reports a bad file as a warning);    *)
(* ExpiresAt = 0 is the zero time (expiry unknown), OldTime is in the past *)
(* and Now + 1 in the future.                                              *)
(***************************************************************************)
Accounts(v) ==
    { a \in [Token : {"", "T0"}, RefreshToken : {"", "R0"},
             IsNative : BOOLEAN, CredentialPath : {"", "cred.json"},
             LoadErr : {"", "failed to parse JSON"},
             ClientID : {"", "client-id"}, ExpiresAt : {0, OldTime, Now + 1}] :
        /\ (a.LoadErr # "" => a.Token = "")
        /\ (v # "gemini" => a.ClientID = "")
        /\ (v = "gemini" => a.LoadErr = "") }

(***************************************************************************)
(* Credential files.  data.kind is "json" (a JSON object, m gives the      *)
(* value of each key, flattened one level for the Gemini token object),    *)
(* "garbage" (bytes that are no JSON object) or "none" (no such file).     *)
(***************************************************************************)
FileKeys == {"access_token", "refresh_token", "id_token", "last_refresh",
             "expired", "token", "token.access_token", "token.refresh_token",
             "token.expiry", "extra"}

Garbage == [kind |-> "garbage"]
NoData  == [kind |-> "none"]
Json(m) == [kind |-> "json", m |-> m]

Modes == {"0600", "0644"}

\* values a key unknown to the program may hold
Extras == {JAbsent, JStr("x"), JNum(0, 1)} \cup {JNum(1, lo) : lo \in 0..MaxLo}

OldStamps == {JAbsent, formatCredentialTime(OldTime)}

StoredToken(s) == IF s = "" THEN JAbsent ELSE JStr(s)
StoredTime(ts) == IF ts = 0 THEN JAbsent ELSE formatCredentialTime(ts)

\* the JSON objects a credential file of vendor v may hold for account a
InitJson(v, a) ==
    IF v = "gemini"
    THEN { [k \in FileKeys |->
              CASE k = "token" -> tok
                [] k = "token.access_token" ->
                      IF tok = JObj THEN StoredToken("T0") ELSE JAbsent
                [] k = "token.refresh_token" ->
                      IF tok = JObj THEN StoredToken(a.RefreshToken) ELSE JAbsent
                [] k = "token.expiry" ->
                      IF tok = JObj THEN StoredTime(a.ExpiresAt) ELSE JAbsent
                [] k = "extra" -> ex
                [] OTHER -> JAbsent] :
             tok \in {JObj, JAbsent}, ex \in Extras }
    ELSE { [k \in FileKeys |->
              CASE k = "access_token" -> StoredToken("T0")
                [] k = "refresh_token" -> StoredToken(a.RefreshToken)
                [] k = "last_refresh" -> old
                [] k = "expired" -> StoredTime(a.ExpiresAt)
                [] k = "extra" -> ex
                [] OTHER -> JAbsent] :
             old \in OldStamps, ex \in Extras }

InitFiles(v, a) ==
    IF a.CredentialPath = ""
    THEN { [data |-> NoData, mode |-> "0600"] }
    ELSE { [data |-> d, mode |-> md] :
             d \in {Garbage, NoData} \cup {Json(m) : m \in InitJson(v, a)},
             md \in Modes }

NoAnswer == [kind |-> "none", status |-> 0, decodable |-> FALSE, windows |-> 0,
             bad |-> 0]
NoTmp == [present |-> FALSE, data |-> NoData, mode |-> "0600"]
NoRR  == [AccessToken |-> "", RefreshToken |-> "", IDToken |-> "", ExpiresIn |-> 0]
NoResult == [state |-> "none", err |-> "", status |-> 0, detail |-> "",
             rows |-> 0, warnings |-> 0]

\* the uses of DetectCredentialSource in one run: main (for the display),
\* the loader of the vendor, the "no credentials" warning of its FetchUsage,
\* and the loader of another vendor running concurrently
Uses == {"main", "loader", "warning", "other"}

\* no credential file at all
NoFs == [dirOK |-> FALSE, files |-> << >>, others |-> FALSE, native |-> "missing"]

\* main is not running
UsageOff ==
    /\ homeDir = ""
    /\ fs = NoFs
    /\ fsChanges = 0
    /\ upc = "Off"
    /\ detected = [u \in Uses |-> ""]
    /\ accounts = << >>
    /\ idx = 1
    /\ outcomes = << >>
    /\ rows = << >>
    /\ nativeRead = FALSE
    /\ fetchErr = ""

\* a JWT as decodeJWTClaims sees it: the number of parts between dots and
\* the second part, sx being its base64url characters (their 6-bit values)
\* and pad the number of '=' that follow them.  The empty string is one part.
JWT(parts, sx, pad) == [parts |-> parts, sx |-> sx, pad |-> pad]
NoJWT == JWT(1, << >>, 0)

\* decodeJWTClaims has not returned
NoClaims == [err |-> "", claims |-> "none"]

\* no token is being decoded
JwtOff ==
    /\ jAccess = NoJWT
    /\ jID = NoJWT
    /\ jpc = "Off"
    /\ jClaims = NoClaims
    /\ jClientID = ""

\* the shared directory is not modelled
DirOff ==
    /\ dir = {}
    /\ dir0 = {}
    /\ wpc = "Off"
    /\ wtmp = << >>
    /\ loader = "none"
    /\ opc = "Off"
    /\ seen = [source |-> "", matches |-> {}]

\* main's aggregation is not modelled
MainOff ==
    /\ allRows = << >>
    /\ mu = ""
    /\ wg = 0
    /\ mi = 0
    /\ tpc = "Off"
    /\ snap = << >>
    /\ ret = << >>

\* no function is checked on its own
FnOff ==
    /\ fnpc = "Off"
    /\ fnIn = "none"
    /\ fnOut = "none"
    /\ DirOff
    /\ MainOff

Init ==
    /\ vendor \in Vendors
    /\ account \in Accounts(vendor)
    /\ pc = "Idle"
    /\ file \in InitFiles(vendor, account)
    /\ file0 = file
    /\ tmp = NoTmp
    /\ rr = NoRR
    /\ encoded = NoData
    /\ quotaSent = << >>
    /\ refreshSent = 0
    /\ refreshOK = FALSE
    /\ tmpCreates = 0
    /\ lastAns = NoAnswer
    /\ result = NoResult
    /\ ctxDone = FALSE
    /\ UsageOff
    /\ JwtOff
    /\ FnOff

(***************************************************************************)
(* Answers of the quota endpoint: a transport error, or a status with a    *)
(* body that decodes or not and carries windows/buckets, some of them      *)
(* with an unparsable reset time.                                          *)
(***************************************************************************)
QuotaAnswers ==
    {[kind |-> "neterr", status |-> 0, decodable |-> FALSE, windows |-> 0, bad |-> 0]}
    \cup {[kind |-> "http", status |-> st, decodable |-> FALSE, windows |-> 0, bad |-> 0] :
            st \in Statuses}
    \cup {[kind |-> "http", status |-> st, decodable |-> TRUE, windows |-> 1, bad |-> 0] :
            st \in Statuses \ {StatusOK}}
    \cup {[kind |-> "http", status |-> StatusOK, decodable |-> TRUE, windows |-> w, bad |-> b] :
            w \in 0..MaxWindows, b \in 0..MaxWindows}

NoErr == [err |-> "", status |-> 0]
Err(msg) == [err |-> msg, status |-> 0]
\* APIStatusError{StatusCode, Body}
APIStatusError(st) == [err |-> "APIStatusError", status |-> st]

\* ClaudeProvider.fetchUsageFromAPI: the error it returns for an answer
fetchUsageFromAPI(ans) ==
    IF ans.kind = "neterr" THEN Err("API request failed")
    ELSE IF ans.status # StatusOK THEN APIStatusError(ans.status)
    ELSE IF ~ans.decodable THEN Err("failed to parse API response")
    ELSE NoErr

\* variant: every 2xx status counts as success
fetchUsageWithTokenAny2xx(ans) ==
    IF ans.kind = "neterr" THEN Err("API request failed")
    ELSE IF ans.status < 200 \/ ans.status > 299 THEN APIStatusError(ans.status)
    ELSE IF ~ans.decodable THEN Err("failed to decode response")
    ELSE NoErr

\* CodexProvider.fetchUsageWithToken: the error it returns for an answer
fetchUsageWithToken(ans) ==
    IF ans.kind = "neterr" THEN Err("API request failed")
    ELSE IF ans.status # StatusOK THEN APIStatusError(ans.status)
    ELSE IF ~ans.decodable THEN Err("failed to decode response")
    ELSE NoErr

\* GeminiProvider.doQuotaRequest: only a transport failure is an error, the
\* status is handed back to the caller
doQuotaRequest(ans) ==
    IF ans.kind = "neterr" THEN Err("request failed") ELSE NoErr

Min(a, b) == IF a < b THEN a ELSE b

\* ClaudeProvider.parseUsageResponse: one row per window present, a warning
\* row for a window whose reset time does not parse
parseUsageResponse(ans) ==
    [rows |-> Min(ans.windows, 2), warnings |-> Min(ans.bad, Min(ans.windows, 2))]

\* CodexProvider.fetchAccountUsage, lines 616-633: always the two fixed rows
codexRows(ans) == [rows |-> 2, warnings |-> 0]

\* GeminiProvider.fetchAccountUsage: a warning row for an empty bucket list,
\* else one row per bucket, a warning row where bucketToRow fails
geminiRows(ans) ==
    IF ans.windows = 0 THEN [rows |-> 1, warnings |-> 1]
    ELSE [rows |-> ans.windows, warnings |-> Min(ans.bad, ans.windows)]

\* the condition under which fetchAccountUsage calls refreshAccessToken
claudeShouldRefresh(e, a) ==
    /\ e.err = "APIStatusError"
    /\ a.RefreshToken # ""
    /\ e.status \in {StatusUnauthorized, StatusForbidden}

codexShouldRefresh(e, a) ==
    /\ e.err = "APIStatusError"
    /\ e.status = StatusUnauthorized
    /\ a.RefreshToken # ""

geminiShouldRefresh(st, a) ==
    st = StatusUnauthorized /\ a.RefreshToken # ""

(***************************************************************************)
(* refreshAccessToken, the checks made before any request is sent.         *)
(* "" means the request is sent.                                           *)
(***************************************************************************)
ReauthError(v) == "token expired. Re-authenticate with " \o v \o " to refresh"

\* variant: the native guard is missing
claudeRefreshPrecheckNoNative(a) ==
    IF a.RefreshToken = "" THEN "refresh token not available" ELSE ""

claudeRefreshPrecheck(a) ==
    IF a.IsNative THEN ReauthError("claude")
    ELSE IF a.RefreshToken = "" THEN "refresh token not available"
    ELSE ""

codexRefreshPrecheck(a) ==
    IF a.IsNative THEN ReauthError("codex")
    ELSE IF a.RefreshToken = "" THEN "refresh token not available"
    ELSE ""

\* the native guard of the Gemini refresh (gemini.go of the native-fallback
\* revision; its test is TestGeminiRefreshAccessToken_NativeSkip)
geminiNativeGuard(a) == a.IsNative

geminiRefreshPrecheck(a) ==
    IF geminiNativeGuard(a) THEN ReauthError("gemini")
    ELSE IF a.RefreshToken = "" \/ a.ClientID = "" THEN "refresh token not available"
    ELSE ""

RefreshPrecheck(v, a) ==
    CASE v = "claude" -> claudeRefreshPrecheck(a)
      [] v = "codex"  -> codexRefreshPrecheck(a)
      [] v = "gemini" -> geminiRefreshPrecheck(a)

(***************************************************************************)
(* Outcomes of a fetch.                                                    *)
(***************************************************************************)
Failed(e, detail) ==
    [state |-> "Failed", err |-> e.err, status |-> e.status, detail |-> detail,
     rows |-> 0, warnings |-> 0]
Ok(r) ==
    [state |-> "Ok", err |-> "", status |-> 0, detail |-> "",
     rows |-> r.rows, warnings |-> r.warnings]

\* the error of a fetch whose account has no access token
NoTokenError(v, a) ==
    CASE v = "claude" ->
           IF a.LoadErr # "" THEN Failed(Err("failed to load credentials"), a.LoadErr)
           ELSE Failed(Err("no access token found in credentials"), "")
      [] v = "codex" ->
           IF a.LoadErr # "" THEN Failed(Err("failed to load credentials"), a.LoadErr)
           ELSE Failed(Err("failed to load credentials"), "")
      [] v = "gemini" -> Failed(Err("missing access token"), "")

\* APIStatusError.Error()
StatusErrorText(st) == <<"API returned status", st>>

\* the text of an error (err.Error()); detail is the text that follows the
\* message of an error built from a load error
ErrorText(res) ==
    IF res.err = "APIStatusError" THEN StatusErrorText(res.status)
    ELSE IF res.status # 0 THEN <<res.err, res.status>>
    ELSE IF res.detail # "" THEN <<res.err, res.detail>>
    ELSE <<res.err>>

\* claudeWarningMessage for the error of a fetch that was no timeout;
\* revoked tells whether the body of a status error mentions a revocation
claudeWarningMessage(res, revoked) ==
    IF res.err = "APIStatusError" /\ revoked
    THEN <<"authentication failed (token revoked)">>
    ELSE IF res.err = "APIStatusError" /\ res.status = StatusUnauthorized
    THEN <<"authentication failed (token may be expired)">>
    ELSE IF res.err = "APIStatusError" /\ res.status = StatusForbidden
    THEN <<"authentication failed (permission denied)">>
    ELSE ErrorText(res)

\* the WarningMsg FetchUsage puts in the warning row of a failed account
WarningMsg(v, res, revoked) ==
    CASE v = "claude" -> claudeWarningMessage(res, revoked)
      [] v = "codex"  -> ErrorText(res)
      [] v = "gemini" -> <<"API error">> \o ErrorText(res)

\* variant: the request is sent whatever the token is
StartNoTokenCheck ==
    /\ pc = "Idle"
    /\ pc' = "Requested"
    /\ quotaSent' = Append(quotaSent, account.Token)
    /\ UNCHANGED <<uvars, jvars, ctxDone, vendor, account, file, file0, tmp, rr, encoded,
                   refreshSent, refreshOK, tmpCreates, lastAns, result>>

\* variant: an account whose expiry has passed is refreshed before the first
\* quota request
StartRefreshesExpired ==
    /\ pc = "Idle"
    /\ IF account.Token = ""
       THEN /\ pc' = "Done"
            /\ result' = [state |-> "Failed", err |-> "no token", status |-> 0,
                          detail |-> "", rows |-> 0, warnings |-> 0]
            /\ UNCHANGED <<quotaSent, refreshSent>>
       ELSE IF account.ExpiresAt # 0 /\ account.ExpiresAt < Now
       THEN /\ pc' = "Refreshing"
            /\ refreshSent' = refreshSent + 1
            /\ UNCHANGED <<quotaSent, result>>
       ELSE /\ pc' = "Requested"
            /\ quotaSent' = Append(quotaSent, account.Token)
            /\ UNCHANGED <<result, refreshSent>>
    /\ UNCHANGED <<uvars, jvars, ctxDone, vendor, account, file, file0, tmp, rr, encoded,
                   refreshOK, tmpCreates, lastAns>>


\* fetchAccountUsage up to its first quota request
Start ==
    /\ pc = "Idle"
    /\ IF account.Token = ""
       THEN /\ pc' = "Done"
            /\ result' = NoTokenError(vendor, account)
            /\ UNCHANGED quotaSent
       ELSE /\ pc' = "Requested"
            /\ quotaSent' = Append(quotaSent, account.Token)
            /\ UNCHANGED result
    /\ UNCHANGED <<uvars, jvars, ctxDone, vendor, account, file, file0, tmp, rr, encoded,
                   refreshSent, refreshOK, tmpCreates, lastAns>>

\* fetchAccountUsage returns res
Return(res) ==
    /\ pc' = "Done"
    /\ result' = res
    /\ UNCHANGED <<uvars, jvars, ctxDone, vendor, account, file, file0, tmp, rr, encoded,
                   quotaSent, refreshSent, refreshOK, tmpCreates>>

\* a return that follows no answer of the quota endpoint
Finish(res) == Return(res) /\ UNCHANGED lastAns

\* variant: the credential path is checked before the request is sent
BeginRefreshChecksPath ==
    LET pre == RefreshPrecheck(vendor, account) IN
    IF pre # ""
    THEN Return(Failed(Err(pre), ""))
    ELSE IF account.CredentialPath = ""
    THEN Return(Failed(Err("credential path not available for refresh"), ""))
    ELSE /\ pc' = "Refreshing"
         /\ refreshSent' = refreshSent + 1
         /\ UNCHANGED <<uvars, jvars, ctxDone, vendor, account, file, file0, tmp, rr, encoded,
                        quotaSent, refreshOK, tmpCreates, result>>

\* fetchAccountUsage calls refreshAccessToken: refused before any request,
\* or the request goes out
BeginRefresh ==
    LET pre == RefreshPrecheck(vendor, account) IN
    IF pre # ""
    THEN Return(Failed(Err(pre), ""))
    ELSE /\ pc' = "Refreshing"
         /\ refreshSent' = refreshSent + 1
         /\ UNCHANGED <<uvars, jvars, ctxDone, vendor, account, file, file0, tmp, rr, encoded,
                        quotaSent, refreshOK, tmpCreates, result>>

\* ClaudeProvider.fetchAccountUsage on the answer to its first request
claudeOnAnswer(ans) ==
    LET e == fetchUsageFromAPI(ans) IN
    IF e.err = "" THEN Return(Ok(parseUsageResponse(ans)))
    ELSE IF claudeShouldRefresh(e, account) THEN BeginRefresh
    ELSE Return(Failed(e, ""))

\* CodexProvider.fetchAccountUsage on the answer to its first request
codexOnAnswer(ans) ==
    LET e == fetchUsageWithToken(ans) IN
    IF e.err = "" THEN Return(Ok(codexRows(ans)))
    ELSE IF codexShouldRefresh(e, account) THEN BeginRefresh
    ELSE Return(Failed(e, ""))

\* GeminiProvider.fetchAccountUsage after a quota request that needs no
\* refresh: status check, decoding, rows
geminiFinish(ans) ==
    IF ans.status # StatusOK
    THEN Return(Failed([err |-> "API returned status", status |-> ans.status], ""))
    ELSE IF ~ans.decodable THEN Return(Failed(Err("failed to parse response"), ""))
    ELSE Return(Ok(geminiRows(ans)))

\* GeminiProvider.fetchAccountUsage on the answer to its first request
geminiOnAnswer(ans) ==
    LET e == doQuotaRequest(ans) IN
    IF e.err # "" THEN Return(Failed(e, ""))
    ELSE IF geminiShouldRefresh(ans.status, account) THEN BeginRefresh
    ELSE geminiFinish(ans)

\* the answer to the first quota request arrives
QuotaResponse ==
    /\ pc = "Requested"
    /\ \E ans \in QuotaAnswers :
         /\ ctxDone => ans.kind = "neterr"
         /\ lastAns' = ans
         /\ CASE vendor = "claude" -> claudeOnAnswer(ans)
              [] vendor = "codex"  -> codexOnAnswer(ans)
              [] vendor = "gemini" -> geminiOnAnswer(ans)

(***************************************************************************)
(* Answers of the refresh endpoint.  A JSON body gives a string for each   *)
(* string key ("" when the key is absent or empty), the set nk of the      *)
(* numeric keys that are present and the number under each of them.        *)
(***************************************************************************)
StrKeys == {"access_token", "accessToken", "token", "refresh_token",
            "refreshToken", "id_token", "idToken"}
NumKeys == {"expires_in", "expiresIn"}

Body(atk, at, rtk, rt, id, ek, ex) ==
    [kind |-> "json",
     s |-> [k \in StrKeys |->
              IF k = atk THEN at ELSE IF k = rtk THEN rt
              ELSE IF k = "id_token" THEN id ELSE ""],
     nk |-> {ek},
     n |-> [k \in NumKeys |-> IF k = ek THEN ex ELSE 0]]

RefreshBodies ==
    { Body(atk, at, rtk, rt, id, ek, ex) :
        atk \in {"access_token", "accessToken", "token"}, at \in {"", "T1"},
        rtk \in {"refresh_token", "refreshToken"}, rt \in {"", "R1"},
        id \in {"", "I1"}, ek \in NumKeys, ex \in 0..MaxExpiresIn }

\* a body that is no JSON object
NoBody == [kind |-> "garbage", s |-> [k \in StrKeys |-> ""], nk |-> {},
           n |-> [k \in NumKeys |-> 0]]

RefreshAnswers ==
    {[kind |-> "neterr", status |-> 0, body |-> NoBody]}
    \cup {[kind |-> "http", status |-> st, body |-> NoBody] : st \in Statuses}
    \cup {[kind |-> "http", status |-> StatusOK, body |-> b] : b \in RefreshBodies}

RECURSIVE stringFromMap(_, _)
\* the first key of keys that holds a non-empty string
stringFromMap(raw, keys) ==
    IF keys = << >> THEN ""
    ELSE IF raw.s[Head(keys)] # "" THEN raw.s[Head(keys)]
    ELSE stringFromMap(raw, Tail(keys))

RECURSIVE int64FromMap(_, _)
\* the number under the first key of keys that is present
int64FromMap(raw, keys) ==
    IF keys = << >> THEN 0
    ELSE IF Head(keys) \in raw.nk THEN raw.n[Head(keys)]
    ELSE int64FromMap(raw, Tail(keys))

\* json.Unmarshal into claudeRefreshResponse
claudeRefreshResponse(b) ==
    [AccessToken |-> b.s["access_token"], RefreshToken |-> b.s["refresh_token"],
     IDToken |-> "",
     ExpiresIn |-> IF "expires_in" \in b.nk THEN b.n["expires_in"] ELSE 0]

\* CodexProvider.refreshAccessToken, lines 737-753: probing of the raw map
codexRefreshResponse(b) ==
    [AccessToken |-> stringFromMap(b, <<"access_token", "accessToken", "token">>),
     RefreshToken |-> stringFromMap(b, <<"refresh_token", "refreshToken">>),
     IDToken |-> stringFromMap(b, <<"id_token", "idToken">>),
     ExpiresIn |-> int64FromMap(b, <<"expires_in", "expiresIn">>)]

\* json.Unmarshal into geminiRefreshResponse
geminiRefreshResponse(b) ==
    [AccessToken |-> b.s["access_token"], RefreshToken |-> "", IDToken |-> "",
     ExpiresIn |-> IF "expires_in" \in b.nk THEN b.n["expires_in"] ELSE 0]

ParseRefresh(v, b) ==
    CASE v = "claude" -> claudeRefreshResponse(b)
      [] v = "codex"  -> codexRefreshResponse(b)
      [] v = "gemini" -> geminiRefreshResponse(b)

\* the error of a refresh answer whose status is not 200
RefreshStatusError(v, st) ==
    IF v = "gemini" THEN [err |-> "token refresh failed: status", status |-> st]
    ELSE APIStatusError(st)

\* the token endpoint answered 200 with a body holding an access token
RefreshExchangeOK(v, ans) ==
    /\ ans.kind = "http"
    /\ ans.status = StatusOK
    /\ ans.body.kind = "json"
    /\ ParseRefresh(v, ans.body).AccessToken # ""

\* variant: the check for an empty access token is missing
refreshErrorNoEmptyCheck(v, a, ans) ==
    IF ans.kind = "neterr" THEN Err("token refresh request failed")
    ELSE IF ans.status # StatusOK THEN RefreshStatusError(v, ans.status)
    ELSE IF ans.body.kind # "json" THEN Err("failed to parse token refresh response")
    ELSE IF a.CredentialPath = "" THEN Err("credential path not available for refresh")
    ELSE NoErr

\* variant: the credential path is not looked at before the update
refreshErrorNoPathCheck(v, a, ans) ==
    IF ans.kind = "neterr" THEN Err("token refresh request failed")
    ELSE IF ans.status # StatusOK THEN RefreshStatusError(v, ans.status)
    ELSE IF ans.body.kind # "json" THEN Err("failed to parse token refresh response")
    ELSE IF ParseRefresh(v, ans.body).AccessToken = ""
    THEN Err("token refresh failed: empty access_token")
    ELSE NoErr

\* refreshAccessToken from the answer of the token endpoint up to the call of
\* the credential-file update: the error it returns, NoErr when it goes on
refreshError(v, a, ans) ==
    IF ans.kind = "neterr" THEN Err("token refresh request failed")
    ELSE IF ans.status # StatusOK THEN RefreshStatusError(v, ans.status)
    ELSE IF ans.body.kind # "json" THEN Err("failed to parse token refresh response")
    ELSE IF ParseRefresh(v, ans.body).AccessToken = ""
    THEN Err("token refresh failed: empty access_token")
    ELSE IF a.CredentialPath = "" THEN Err("credential path not available for refresh")
    ELSE NoErr

\* variant: an error of the refresh is dropped and the quota request is
\* retried with the token the account held
RefreshResponseRetriesOnError ==
    /\ pc = "Refreshing"
    /\ \E ans \in RefreshAnswers :
         /\ ctxDone => ans.kind = "neterr"
         /\ refreshOK' = (refreshOK \/ RefreshExchangeOK(vendor, ans))
         /\ LET e == refreshError(vendor, account, ans) IN
            IF e.err # ""
            THEN /\ pc' = "Retrying"
                 /\ quotaSent' = Append(quotaSent, account.Token)
                 /\ UNCHANGED rr
            ELSE /\ pc' = "Updating"
                 /\ rr' = ParseRefresh(vendor, ans.body)
                 /\ UNCHANGED quotaSent
    /\ UNCHANGED <<uvars, jvars, ctxDone, vendor, account, file, file0, tmp, encoded, result,
                   refreshSent, tmpCreates, lastAns>>

\* the answer of the token endpoint arrives
RefreshResponse ==
    /\ pc = "Refreshing"
    /\ \E ans \in RefreshAnswers :
         /\ ctxDone => ans.kind = "neterr"
         /\ refreshOK' = (refreshOK \/ RefreshExchangeOK(vendor, ans))
         /\ LET e == refreshError(vendor, account, ans) IN
            IF e.err # ""
            THEN /\ pc' = "Done"
                 /\ result' = Failed(e, "")
                 /\ UNCHANGED rr
            ELSE /\ pc' = "Updating"
                 /\ rr' = ParseRefresh(vendor, ans.body)
                 /\ UNCHANGED result
    /\ UNCHANGED <<uvars, jvars, ctxDone, vendor, account, file, file0, tmp, encoded, quotaSent,
                   refreshSent, tmpCreates, lastAns>>

(***************************************************************************)
(* updateJSONCredentials: decoding into map[string]any, the vendor's       *)
(* update function, encoding.                                              *)
(***************************************************************************)
\* json.Unmarshal stores a JSON number in an interface value as a float64:
\* an integer below 2^53 is kept, one in [2^53, 2^54) is rounded to the
\* nearest even integer, a tie going to the even mantissa
Float64(hi, lo) ==
    IF hi = 0 \/ lo % 2 = 0 THEN JNum(hi, lo)
    ELSE IF ((lo - 1) \div 2) % 2 = 0 THEN JNum(hi, lo - 1)
    ELSE JNum(hi, lo + 1)

\* the value json.Unmarshal puts in the map for a value of the file
decodeValue(x) == IF x.t = "num" THEN Float64(x.hi, x.lo) ELSE x

\* json.Unmarshal(data, &raw) of a JSON object
decodeJSON(m) == [k \in FileKeys |-> decodeValue(m[k])]

\* json.Marshal(raw): every value of the map is written out as it is held
encodeJSON(raw) == Json(raw)

UpdateOk(raw) == [err |-> "", raw |-> raw]
UpdateErr(msg, raw) == [err |-> msg, raw |-> raw]

\* the update function of updateClaudeCredentialFile
updateClaudeCredentialFile(raw, r) ==
    UpdateOk([k \in FileKeys |->
        CASE k = "access_token" -> JStr(r.AccessToken)
          [] k = "refresh_token" /\ r.RefreshToken # "" -> JStr(r.RefreshToken)
          [] k = "last_refresh" -> formatCredentialTime(Now)
          [] k = "expired" /\ r.ExpiresIn > 0 -> formatCredentialTime(Now + r.ExpiresIn)
          [] OTHER -> raw[k]])

\* variant: refresh_token and expired are written whatever the answer held
updateCodexCredentialFileOverwrites(raw, r) ==
    UpdateOk([k \in FileKeys |->
        CASE k = "access_token" -> JStr(r.AccessToken)
          [] k = "refresh_token" -> JStr(r.RefreshToken)
          [] k = "id_token" /\ r.IDToken # "" -> JStr(r.IDToken)
          [] k = "last_refresh" -> formatCredentialTime(Now)
          [] k = "expired" -> formatCredentialTime(Now + r.ExpiresIn)
          [] OTHER -> raw[k]])

\* variant: last_refresh is not set
updateCodexCredentialFileNoStamp(raw, r) ==
    UpdateOk([k \in FileKeys |->
        CASE k = "access_token" -> JStr(r.AccessToken)
          [] k = "refresh_token" /\ r.RefreshToken # "" -> JStr(r.RefreshToken)
          [] k = "id_token" /\ r.IDToken # "" -> JStr(r.IDToken)
          [] k = "expired" /\ r.ExpiresIn > 0 -> formatCredentialTime(Now + r.ExpiresIn)
          [] OTHER -> raw[k]])

\* the update function of updateCodexCredentialFile
updateCodexCredentialFile(raw, r) ==
    UpdateOk([k \in FileKeys |->
        CASE k = "access_token" -> JStr(r.AccessToken)
          [] k = "refresh_token" /\ r.RefreshToken # "" -> JStr(r.RefreshToken)
          [] k = "id_token" /\ r.IDToken # "" -> JStr(r.IDToken)
          [] k = "last_refresh" -> formatCredentialTime(Now)
          [] k = "expired" /\ r.ExpiresIn > 0 -> formatCredentialTime(Now + r.ExpiresIn)
          [] OTHER -> raw[k]])

\* the update function of updateGeminiCredentialFile
updateGeminiCredentialFile(raw, r) ==
    IF raw["token"] # JObj
    THEN UpdateErr("missing token object in credentials file", raw)
    ELSE UpdateOk([k \in FileKeys |->
        CASE k = "token.access_token" -> JStr(r.AccessToken)
          [] k = "token.expiry" /\ r.ExpiresIn > 0 -> formatCredentialTime(Now + r.ExpiresIn)
          [] OTHER -> raw[k]])

UpdateCredentialFile(v, raw, r) ==
    CASE v = "claude" -> updateClaudeCredentialFile(raw, r)
      [] v = "codex"  -> updateCodexCredentialFile(raw, r)
      [] v = "gemini" -> updateGeminiCredentialFile(raw, r)

\* updateJSONCredentials, lines 12-35: os.Stat, os.ReadFile, json.Unmarshal,
\* update, json.Marshal; the error of the first step that fails, else the
\* encoded new content
updateJSONCredentials(v, f, r, statOK, readOK) ==
    IF f.data.kind = "none" \/ ~statOK
    THEN [err |-> "failed to stat credentials file", data |-> NoData]
    ELSE IF ~readOK
    THEN [err |-> "failed to read credentials file", data |-> NoData]
    ELSE IF f.data.kind # "json"
    THEN [err |-> "failed to parse credentials file", data |-> NoData]
    ELSE LET u == UpdateCredentialFile(v, decodeJSON(f.data.m), r) IN
         IF u.err # "" THEN [err |-> u.err, data |-> NoData]
         ELSE [err |-> "", data |-> encodeJSON(u.raw)]

\* the update up to the call of writeFileAtomic
UpdateRead ==
    /\ pc = "Updating"
    /\ \E statOK \in BOOLEAN, readOK \in BOOLEAN :
         LET u == updateJSONCredentials(vendor, file, rr, statOK, readOK) IN
         IF u.err # ""
         THEN Finish(Failed(Err(u.err), ""))
         ELSE /\ pc' = "CreateTemp"
              /\ encoded' = u.data
              /\ UNCHANGED <<uvars, jvars, ctxDone, vendor, account, file, file0, tmp, rr, quotaSent,
                             refreshSent, refreshOK, tmpCreates, lastAns, result>>

(***************************************************************************)
(* writeFileAtomic, one action per system call.  ok is the outcome of the  *)
(* call; rmOK the outcome of the deferred os.Remove of the temporary file, *)
(* whose error the code ignores.                                           *)
(***************************************************************************)
WriteError == Err("failed to write credentials file")

\* variant: the error of writeFileAtomic is dropped and the new token is
\* handed to the caller, which sends the retried request
WriteFailedIgnored(rmOK) ==
    /\ pc' = "Retrying"
    /\ quotaSent' = Append(quotaSent, rr.AccessToken)
    /\ tmp' = IF rmOK THEN NoTmp ELSE tmp
    /\ UNCHANGED <<uvars, jvars, ctxDone, vendor, account, file, file0, rr, encoded, refreshSent,
                   refreshOK, tmpCreates, lastAns, result>>

\* a failure return of writeFileAtomic after the temporary file exists
WriteFailed(rmOK) ==
    /\ pc' = "Done"
    /\ result' = Failed(WriteError, "")
    /\ tmp' = IF rmOK THEN NoTmp ELSE tmp
    /\ UNCHANGED <<uvars, jvars, ctxDone, vendor, account, file, file0, rr, encoded, quotaSent,
                   refreshSent, refreshOK, tmpCreates, lastAns>>

\* a step of writeFileAtomic that succeeds and changes the temporary file
TmpStep(next, t) ==
    /\ pc' = next
    /\ tmp' = t
    /\ UNCHANGED <<uvars, jvars, ctxDone, vendor, account, file, file0, rr, encoded, quotaSent,
                   refreshSent, refreshOK, lastAns, result>>

\* variant: the destination itself is created anew (os.Create(path)) and
\* written through
CreateTempTruncating ==
    /\ pc = "CreateTemp"
    /\ \E ok \in BOOLEAN :
         IF ok
         THEN /\ pc' = "TmpWrite"
              /\ file' = [file EXCEPT !.data = [kind |-> "empty"]]
              /\ tmp' = [present |-> TRUE, data |-> [kind |-> "empty"], mode |-> "0600"]
              /\ tmpCreates' = tmpCreates + 1
              /\ UNCHANGED <<uvars, jvars, ctxDone, vendor, account, file0, rr, encoded, quotaSent,
                             refreshSent, refreshOK, lastAns, result>>
         ELSE Finish(Failed(WriteError, ""))

\* os.CreateTemp(dir, ".tmp-cred-*")
CreateTemp ==
    /\ pc = "CreateTemp"
    /\ \E ok \in BOOLEAN :
         IF ok
         THEN /\ tmpCreates' = tmpCreates + 1
              /\ TmpStep("TmpWrite", [present |-> TRUE, data |-> [kind |-> "empty"],
                                      mode |-> "0600"])
         ELSE Finish(Failed(WriteError, ""))

\* variant: a failed write is followed by a rename of what was written
TmpWriteRenamesPartial ==
    /\ pc = "TmpWrite"
    /\ \E ok \in BOOLEAN :
         IF ok
         THEN /\ TmpStep("TmpChmod", [tmp EXCEPT !.data = encoded])
              /\ UNCHANGED tmpCreates
         ELSE /\ pc' = "Done"
              /\ result' = Failed(WriteError, "")
              /\ file' = [file EXCEPT !.data = [kind |-> "partial"]]
              /\ tmp' = NoTmp
              /\ UNCHANGED <<uvars, jvars, ctxDone, vendor, account, file0, rr, encoded, quotaSent,
                             refreshSent, refreshOK, tmpCreates, lastAns>>

\* tmp.Write(data): a failed write may leave a part of the data
TmpWrite ==
    /\ pc = "TmpWrite"
    /\ \E ok \in BOOLEAN, rmOK \in BOOLEAN :
         IF ok
         THEN /\ TmpStep("TmpChmod", [tmp EXCEPT !.data = encoded])
              /\ UNCHANGED tmpCreates
         ELSE \E d \in {[kind |-> "empty"], [kind |-> "partial"]} :
                /\ pc' = "Done"
                /\ result' = Failed(WriteError, "")
                /\ tmp' = IF rmOK THEN NoTmp ELSE [tmp EXCEPT !.data = d]
                /\ UNCHANGED <<uvars, jvars, ctxDone, vendor, account, file, file0, rr, encoded, quotaSent,
                               refreshSent, refreshOK, tmpCreates, lastAns>>

\* tmp.Chmod(mode), mode being the permission bits os.Stat reported
TmpChmod ==
    /\ pc = "TmpChmod"
    /\ \E ok \in BOOLEAN, rmOK \in BOOLEAN :
         IF ok
         THEN /\ TmpStep("TmpClose", [tmp EXCEPT !.mode = file.mode])
              /\ UNCHANGED tmpCreates
         ELSE WriteFailed(rmOK)

\* tmp.Close()
TmpClose ==
    /\ pc = "TmpClose"
    /\ \E ok \in BOOLEAN, rmOK \in BOOLEAN :
         IF ok
         THEN /\ TmpStep("Rename", tmp)
              /\ UNCHANGED tmpCreates
         ELSE WriteFailed(rmOK)

\* variant: the retried request carries the token the account held
RetryTokenCached(a, refreshed) == a.Token

\* the token of the retried quota request
RetryToken(a, refreshed) == refreshed

\* variant: no provider assigns the new token to its account variable
AccountAfterRefreshNone(v, a, refreshed) == a

\* the account variable of fetchAccountUsage after a successful refresh:
\* only the Codex provider assigns to it (account.Token = refreshed)
AccountAfterRefresh(v, a, refreshed) ==
    IF v = "codex" THEN [a EXCEPT !.Token = refreshed] ELSE a

\* variant: the new content is copied to the path and the temporary file
\* stays
RenameKeepsTemp ==
    /\ pc = "Rename"
    /\ \E ok \in BOOLEAN, rmOK \in BOOLEAN :
         IF ok
         THEN /\ file' = [data |-> tmp.data, mode |-> tmp.mode]
              /\ account' = AccountAfterRefresh(vendor, account, rr.AccessToken)
              /\ quotaSent' = Append(quotaSent, RetryToken(account, rr.AccessToken))
              /\ pc' = "Retrying"
              /\ UNCHANGED <<uvars, jvars, ctxDone, vendor, file0, rr, encoded, refreshSent, refreshOK,
                             tmpCreates, lastAns, result, tmp>>
         ELSE WriteFailed(rmOK)

\* variant: the retried request is sent whether or not the rename succeeded
RenameRetriesAnyway ==
    /\ pc = "Rename"
    /\ \E ok \in BOOLEAN :
         /\ file' = IF ok THEN [data |-> tmp.data, mode |-> tmp.mode] ELSE file
         /\ tmp' = NoTmp
         /\ account' = AccountAfterRefresh(vendor, account, rr.AccessToken)
         /\ quotaSent' = Append(quotaSent, RetryToken(account, rr.AccessToken))
         /\ pc' = "Retrying"
         /\ UNCHANGED <<uvars, jvars, ctxDone, vendor, file0, rr, encoded, refreshSent, refreshOK,
                        tmpCreates, lastAns, result>>

\* os.Rename(tmp.Name(), path); on success refreshAccessToken returns the new
\* token and fetchAccountUsage sends the retried quota request
Rename ==
    /\ pc = "Rename"
    /\ \E ok \in BOOLEAN, rmOK \in BOOLEAN :
         IF ok
         THEN /\ file' = [data |-> tmp.data, mode |-> tmp.mode]
              /\ tmp' = NoTmp
              /\ account' = AccountAfterRefresh(vendor, account, rr.AccessToken)
              /\ quotaSent' = Append(quotaSent, RetryToken(account, rr.AccessToken))
              /\ pc' = "Retrying"
              /\ UNCHANGED <<uvars, jvars, ctxDone, vendor, file0, rr, encoded, refreshSent, refreshOK,
                             tmpCreates, lastAns, result>>
         ELSE WriteFailed(rmOK)

\* variant: the answer to the retried request is handled like the first one
claudeOnRetryRefreshing(ans) ==
    LET e == fetchUsageFromAPI(ans) IN
    IF e.err = "" THEN Return(Ok(parseUsageResponse(ans)))
    ELSE IF claudeShouldRefresh(e, account) THEN BeginRefresh
    ELSE Return(Failed(e, ""))

\* ClaudeProvider.fetchAccountUsage on the answer to the retried request
claudeOnRetry(ans) ==
    LET e == fetchUsageFromAPI(ans) IN
    IF e.err = "" THEN Return(Ok(parseUsageResponse(ans)))
    ELSE Return(Failed(e, ""))

\* CodexProvider.fetchAccountUsage on the answer to the retried request
codexOnRetry(ans) ==
    LET e == fetchUsageWithToken(ans) IN
    IF e.err = "" THEN Return(Ok(codexRows(ans)))
    ELSE Return(Failed(e, ""))

\* GeminiProvider.fetchAccountUsage on the answer to the retried request
geminiOnRetry(ans) ==
    LET e == doQuotaRequest(ans) IN
    IF e.err # "" THEN Return(Failed(e, "")) ELSE geminiFinish(ans)

\* variant: the retried request is answered although the context is done
RetryResponseIgnoresCancel ==
    /\ pc = "Retrying"
    /\ \E ans \in QuotaAnswers :
         /\ lastAns' = ans
         /\ CASE vendor = "claude" -> claudeOnRetry(ans)
              [] vendor = "codex"  -> codexOnRetry(ans)
              [] vendor = "gemini" -> geminiOnRetry(ans)

\* the answer to the retried quota request arrives
RetryResponse ==
    /\ pc = "Retrying"
    /\ \E ans \in QuotaAnswers :
         /\ ctxDone => ans.kind = "neterr"
         /\ lastAns' = ans
         /\ CASE vendor = "claude" -> claudeOnRetry(ans)
              [] vendor = "codex"  -> codexOnRetry(ans)
              [] vendor = "gemini" -> geminiOnRetry(ans)

\* the caller's context is cancelled or reaches its deadline while the
\* fetch runs (main.go: context.WithTimeout of 60 s)
Cancel ==
    /\ pc # "Done"
    /\ ~ctxDone
    /\ ctxDone' = TRUE
    /\ UNCHANGED <<uvars, jvars, vendor, account, pc, file, file0, tmp, rr, encoded,
                   quotaSent, refreshSent, refreshOK, tmpCreates, lastAns, result>>

Next ==
    \/ Cancel
    \/ Start
    \/ QuotaResponse
    \/ RefreshResponse
    \/ UpdateRead
    \/ CreateTemp
    \/ TmpWrite
    \/ TmpChmod
    \/ TmpClose
    \/ Rename
    \/ RetryResponse

Spec == Init /\ [][Next]_vars

\* the same program with its scheduling: the process keeps running, every
\* HTTP client has a 30 s timeout and every request carries the context,
\* so a step that can be taken is taken
FairSpec == Spec /\ WF_vars(Next)

(***************************************************************************)
(* Properties.                                                             *)
(***************************************************************************)
\* the steps of updateJSONCredentials / writeFileAtomic
UpdateSteps == {"Updating", "CreateTemp", "TmpWrite", "TmpChmod", "TmpClose", "Rename"}

\* refreshAccessToken returned the new token: the retried request went out
Refreshed == Len(quotaSent) = 2

\* the errors updateJSONCredentials returns
UpdateErrors == {"failed to stat credentials file", "failed to read credentials file",
                 "failed to parse credentials file",
                 "missing token object in credentials file",
                 "failed to write credentials file"}

\* the key of the file that holds the access token
AccessKey(v) == IF v = "gemini" THEN "token.access_token" ELSE "access_token"

\* the keys the update function of a vendor may set
UpdatedKeys(v) ==
    IF v = "gemini" THEN {"token.access_token", "token.expiry"}
    ELSE {"access_token", "refresh_token", "id_token", "last_refresh", "expired"}

\* C1: in one fetch at most one request goes to the refresh endpoint and at
\* most two to the quota endpoint; a second quota request is the retry, and
\* its answer ends the fetch: a 401 or 403 on the retry is reported as the
\* failure, with no further refresh and no third quota request.
C1_OneRefreshTwoQuota ==
    /\ refreshSent <= 1
    /\ Len(quotaSent) <= 2
    /\ (Len(quotaSent) = 2 => pc \in {"Retrying", "Done"})
    /\ (pc = "Done" /\ Len(quotaSent) = 2
          /\ lastAns.status \in {StatusUnauthorized, StatusForbidden}
        => result.state = "Failed" /\ result.status = lastAns.status)

\* a fetch that ended on a 401 answer to its retried request
C1_Witness ==
    /\ pc = "Done"
    /\ Len(quotaSent) = 2
    /\ refreshSent = 1
    /\ lastAns.status = StatusUnauthorized
    /\ result.state = "Failed"

\* C2: for a native account the refresh is refused with the vendor-named
\* re-authenticate error before any request to the refresh endpoint and
\* without any file being created or written, whether or not the account
\* has a refresh token; the credential file of a native account stays as it
\* was.
C2_NativeNeverRefreshes ==
    account.IsNative =>
        /\ refreshSent = 0
        /\ tmpCreates = 0
        /\ ~tmp.present
        /\ file = file0
        /\ pc \in {"Idle", "Requested", "Done"}
        /\ (pc = "Done" /\ lastAns.kind = "http"
              /\ lastAns.status = StatusUnauthorized /\ account.RefreshToken # ""
            => result.state = "Failed" /\ result.err = ReauthError(vendor))

\* a native account holding a refresh token whose quota request was answered
\* 401: the fetch ended with the re-authenticate error
C2_Witness ==
    /\ account.IsNative
    /\ account.RefreshToken # ""
    /\ pc = "Done"
    /\ lastAns.status = StatusUnauthorized
    /\ result.err = ReauthError(vendor)
    /\ Len(quotaSent) = 1

C4_WriteFailureFailsFetch ==
    /\ (refreshOK /\ Refreshed =>
          /\ encoded.kind = "json"
          /\ file.data = encoded
          /\ ~tmp.present)
    /\ (refreshOK /\ pc = "Done" /\ ~Refreshed =>
          /\ result.state = "Failed"
          /\ file = file0
          /\ account.Token = quotaSent[1])

\* the refresh exchange succeeded, a step of writeFileAtomic failed
C4_Witness ==
    /\ refreshOK
    /\ pc = "Done"
    /\ tmpCreates = 1
    /\ result.err = "failed to write credentials file"
    /\ Len(quotaSent) = 1
    /\ result.state = "Failed"

\* C5: while updateJSONCredentials runs, and after it returned an error from
\* any of its steps (stat, read, parse, update function, temporary file
\* create, write, chmod, close, rename), the file at the path holds what it
\* held before the call, and the fetch ends with that error.
C5_FailedUpdateLeavesFile ==
    /\ (pc \in UpdateSteps => file = file0)
    /\ (pc = "Done" /\ result.err \in UpdateErrors => file = file0 /\ ~Refreshed)
    /\ (pc = "Done" /\ encoded # NoData /\ ~Refreshed
        => result.state = "Failed" /\ result.err = "failed to write credentials file")

\* a write that failed after the new content was encoded, the temporary file
\* left behind by a failed os.Remove
C5_Witness ==
    /\ pc = "Done"
    /\ encoded.kind = "json"
    /\ encoded # file0.data
    /\ tmp.present
    /\ result.err = "failed to write credentials file"
    /\ file = file0

\* C6: in every state of a fetch the credential path holds either the
\* complete content it had at the start or the complete encoded new content;
\* it is never empty or partly written.
C6_OldOrNewContent ==
    /\ file.data.kind \notin {"empty", "partial"}
    /\ \/ file.data = file0.data
       \/ encoded.kind = "json" /\ file.data = encoded

\* the new content is in place and differs from the old one
C6_Witness ==
    /\ pc = "Retrying"
    /\ file.data = encoded
    /\ file.data # file0.data
    /\ file0.data.kind = "json"

\* C7: after a successful update every key other than those the update
\* function sets holds the value it held before.
C7_OtherKeysKept ==
    (Refreshed /\ file0.data.kind = "json" /\ file.data.kind = "json") =>
        \A k \in FileKeys \ UpdatedKeys(vendor) : file.data.m[k] = file0.data.m[k]

\* C8 as stated: after a successful refresh the file of every vendor holds
\* the new access token and a refresh time stamp of the update.
C8_StampForEveryVendor ==
    Refreshed =>
        /\ file.data.kind = "json"
        /\ file.data.m[AccessKey(vendor)] = JStr(rr.AccessToken)
        /\ \E k \in {"last_refresh", "token.expiry"} :
             /\ file.data.m[k].t = "time"
             /\ file.data.m[k].v >= Now

\* C8 (amended): after a successful refresh the file holds the new access
\* token (access_token, token.access_token for Gemini); the Claude and Codex
\* files hold last_refresh set to the time of the update; the Gemini file
\* gets no last_refresh, and its token.expiry is set to the new expiry only
\* when the answer gave a positive expires_in and is otherwise as it was.
C8_NewTokenAndStamp ==
    Refreshed =>
        /\ file.data.kind = "json"
        /\ file.data.m[AccessKey(vendor)] = JStr(rr.AccessToken)
        /\ IF vendor = "gemini"
           THEN /\ file.data.m["last_refresh"] = JAbsent
                /\ file.data.m["token.expiry"] =
                     IF rr.ExpiresIn > 0 THEN formatCredentialTime(Now + rr.ExpiresIn)
                     ELSE file0.data.m["token.expiry"]
           ELSE file.data.m["last_refresh"] = formatCredentialTime(Now)

\* a Codex file that held an old last_refresh now holds the new one
C8_Witness ==
    /\ Refreshed
    /\ vendor = "codex"
    /\ file0.data.m["last_refresh"] = formatCredentialTime(OldTime)
    /\ file.data.m["last_refresh"] = formatCredentialTime(Now)
    /\ file.data.m["access_token"] = JStr("T1")

\* C9: a credential file differs from what it held at the start only if a
\* request to the refresh endpoint was answered 200 with a non-empty access
\* token; a fetch that ends without such an answer leaves the file as it
\* was and creates no temporary file.
C9_ChangeOnlyAfterRefresh ==
    /\ (file # file0 => refreshOK /\ refreshSent = 1)
    /\ (~refreshOK => file = file0 /\ tmpCreates = 0 /\ pc \notin UpdateSteps)

\* a refresh answered 200 without an access token: the fetch ended Failed,
\* the file is as it was
C9_Witness ==
    /\ pc = "Done"
    /\ refreshSent = 1
    /\ ~refreshOK
    /\ result.err = "token refresh failed: empty access_token"
    /\ file = file0
    /\ file.data.kind = "json"

AuthRejected ==
    /\ pc \notin {"Idle", "Requested"}
    /\ ~Refreshed
    /\ Len(quotaSent) = 1
    /\ lastAns.kind = "http"
    /\ lastAns.status \in {StatusUnauthorized, StatusForbidden}

\* the errors refreshAccessToken returns before it sends a request
RefusedErrors(v) == {ReauthError(v), "refresh token not available"}

\* C11: for every vendor a 401 or 403 answer to the quota request of an
\* account with a refresh token leads to a call of the refresh (a request
\* to the refresh endpoint, or the refusal the refresh returns before it);
\* any other non-2xx status ends the fetch Failed with that status and no
\* refresh.
C11_RefreshOn401Or403 ==
    /\ (AuthRejected /\ account.RefreshToken # ""
        => \/ refreshSent = 1
           \/ pc = "Done" /\ result.err \in RefusedErrors(vendor))
    /\ (pc = "Done" /\ Len(quotaSent) = 1 /\ lastAns.kind = "http"
          /\ lastAns.status \notin {StatusUnauthorized, StatusForbidden}
          /\ lastAns.status \div 100 # 2
        => /\ result.state = "Failed"
           /\ result.status = lastAns.status
           /\ refreshSent = 0)

\* the messages that tell the user the authentication failed
AuthMessages(v) ==
    {<<ReauthError(v)>>, <<"authentication failed (token revoked)">>,
     <<"authentication failed (token may be expired)">>,
     <<"authentication failed (permission denied)">>}

\* C12: a 401 or 403 answer to the quota request of a native account, or of
\* a non-native account without a refresh token, ends the fetch with a
\* message that tells the user to authenticate again, and without any
\* refresh request or retried quota request.
C12_ReauthMessageNoSecondRequest ==
    (pc = "Done" /\ AuthRejected /\ (account.IsNative \/ account.RefreshToken = "")) =>
        /\ refreshSent = 0
        /\ result.state = "Failed"
        /\ \A revoked \in BOOLEAN : WarningMsg(vendor, result, revoked) \in AuthMessages(vendor)

\* C13: when the refresh endpoint answered with a status other than 200, an
\* unparsable body or a body without access token (or did not answer), the
\* fetch is over and Failed: no retried quota request and no second refresh
\* request were sent, no temporary file was created and the credential file
\* is as it was.
C13_RefreshFailureTerminal ==
    (refreshSent >= 1 /\ pc # "Refreshing" /\ ~refreshOK) =>
        /\ pc = "Done"
        /\ result.state = "Failed"
        /\ refreshSent = 1
        /\ Len(quotaSent) = 1
        /\ tmpCreates = 0
        /\ file = file0

\* the refresh endpoint answered 500: the fetch ended with that status
C13_Witness ==
    /\ pc = "Done"
    /\ refreshSent = 1
    /\ ~refreshOK
    /\ result.status = 500
    /\ lastAns.status = StatusUnauthorized
    /\ Len(quotaSent) = 1

\* the messages of a fetch for an account without token and load error
NoTokenMessages ==
    {"no access token found in credentials", "failed to load credentials",
     "missing access token"}

\* C14: an account with an empty access token causes no request: its fetch
\* goes from Idle straight to a failure that carries the load error of the
\* account, or a no-token message when there is none.
C14_EmptyTokenNoRequest ==
    account.Token = "" =>
        /\ pc \in {"Idle", "Done"}
        /\ Len(quotaSent) = 0
        /\ refreshSent = 0
        /\ file = file0
        /\ (pc = "Done" =>
              /\ result.state = "Failed"
              /\ IF account.LoadErr # ""
                 THEN result.detail = account.LoadErr
                 ELSE result.err \in NoTokenMessages /\ result.detail = "")

\* an account that failed to load: the fetch ended with its load error
C14_Witness ==
    /\ pc = "Done"
    /\ account.Token = ""
    /\ account.LoadErr # ""
    /\ result.detail = account.LoadErr
    /\ Len(quotaSent) = 0

\* C16: a fetch that ended Ok holds one row per window or bucket of the
\* answer it ended on, and for a 200 answer without any window or bucket it
\* holds a warning row, never no row at all.
C16_RowPerWindowOrWarning ==
    (pc = "Done" /\ result.state = "Ok") =>
        IF lastAns.windows = 0
        THEN result.rows >= 1 /\ result.warnings >= 1
        ELSE result.rows = lastAns.windows

(***************************************************************************)
(* Part 2.  The credential source, the loaders and FetchUsage.             *)
(*                                                                         *)
(* The files: dirOK says that <homeDir>/.cli-proxy-api exists and can be   *)
(* scanned, files are the proxy files matching the pattern of the vendor   *)
(* of this run in name order (what each one holds), others says that a     *)
(* proxy file of another vendor exists, native is the vendor's native      *)
(* credential file.                                                        *)
(***************************************************************************)
FileKinds   == {"valid", "malformed", "notoken"}
NativeKinds == FileKinds \cup {"missing"}

FsStates ==
    { f \in [dirOK : BOOLEAN,
             files : UNION {[1..n -> FileKinds] : n \in 0..MaxFiles},
             others : BOOLEAN,
             native : NativeKinds] :
        ~f.dirOK => (f.files = << >> /\ ~f.others) }

\* filepath.Glob(<homeDir>/.cli-proxy-api/<v>-*.json) for the run of vendor
\* focal: the matches; a directory that is missing or cannot be scanned
\* gives none (Glob ignores I/O errors)
Glob(f, focal, v) ==
    IF ~f.dirOK THEN << >>
    ELSE IF v = focal THEN f.files
    ELSE IF f.others THEN <<"valid">>
    ELSE << >>

\* variant: only the pattern of the vendor itself is scanned
DetectCredentialSourcePerVendor(h, f, focal) ==
    IF h = "" THEN "native"
    ELSE IF Len(Glob(f, focal, focal)) > 0 THEN "proxy"
    ELSE "native"

\* DetectCredentialSource(homeDir)
DetectCredentialSource(h, f, focal) ==
    IF h = "" THEN "native"
    ELSE IF \E v \in Vendors : Len(Glob(f, focal, v)) > 0 THEN "proxy"
    ELSE "native"

\* what a loader hands back: accounts, warnings (Gemini), error, and whether
\* it read the native file
Loaded(accs, warns, e, nat) ==
    [accounts |-> accs, warnings |-> warns, err |-> e, nativeRead |-> nat]

\* the paths filepath.Glob returns for the proxy pattern of each vendor
ProxyPaths ==
    [v \in Vendors |->
        [i \in 1..MaxFiles |-> ".cli-proxy-api/" \o v \o "-" \o ToString(i) \o ".json"]]

\* the path of the i-th file matching the proxy pattern of vendor v
ProxyPath(v, i) == ProxyPaths[v][i]

\* the path of the native credential file of vendor v
NativePath(v) ==
    CASE v = "claude" -> ".claude/.credentials.json"
      [] v = "codex"  -> ".codex/auth.json"
      [] v = "gemini" -> ".gemini/oauth_creds.json"

LoadedAccount(tok, rt, nat, path, lerr, cid) ==
    [Token |-> tok, RefreshToken |-> rt, IsNative |-> nat, CredentialPath |-> path,
     LoadErr |-> lerr, ClientID |-> cid, ExpiresAt |-> 0]

\* variant: the account made for a file that failed keeps a token
claudeLoadCredentialFileKeepsToken(kind, path) ==
    CASE kind = "valid" -> LoadedAccount("T0", "R0", FALSE, path, "", "")
      [] kind = "malformed" ->
           LoadedAccount("T0", "", FALSE, path, "failed to parse credentials file", "")
      [] kind = "notoken" ->
           LoadedAccount("", "", FALSE, path, "no access token found in credentials", "")

\* ClaudeProvider.loadCredentialFile and the account loadCredentials makes
\* of its error
claudeLoadCredentialFile(kind, path) ==
    CASE kind = "valid" -> LoadedAccount("T0", "R0", FALSE, path, "", "")
      [] kind = "malformed" ->
           LoadedAccount("", "", FALSE, path, "failed to parse credentials file", "")
      [] kind = "notoken" ->
           LoadedAccount("", "", FALSE, path, "no access token found in credentials", "")

\* variant: a native file that cannot be used is skipped like a missing one
claudeLoadNativeCredentialsSkipping(f) ==
    IF f.native = "valid"
    THEN Loaded(<<LoadedAccount("T0", "R0", TRUE, NativePath("claude"), "", "")>>, << >>, "", TRUE)
    ELSE Loaded(<< >>, << >>, "", TRUE)

\* ClaudeProvider.loadNativeCredentials
claudeLoadNativeCredentials(f) ==
    CASE f.native = "missing" -> Loaded(<< >>, << >>, "", TRUE)
      [] f.native = "malformed" ->
           Loaded(<<LoadedAccount("", "", TRUE, NativePath("claude"), "failed to parse credentials", "")>>,
                  << >>, "", TRUE)
      [] f.native = "notoken" ->
           Loaded(<<LoadedAccount("", "", TRUE, NativePath("claude"),
                                  "no access token found in credentials", "")>>,
                  << >>, "", TRUE)
      [] f.native = "valid" ->
           Loaded(<<LoadedAccount("T0", "R0", TRUE, NativePath("claude"), "", "")>>, << >>, "", TRUE)

\* variant: a file that does not load ends the load with its error
claudeLoadCredentialsAborting(src, f) ==
    IF src = "native" THEN claudeLoadNativeCredentials(f)
    ELSE LET m == Glob(f, "claude", "claude") IN
         IF Len(m) = 0
         THEN Loaded(<< >>, << >>, "No credential files found matching", FALSE)
         ELSE IF \E i \in 1..Len(m) : m[i] # "valid"
         THEN Loaded(<< >>, << >>, "failed to load credentials", FALSE)
         ELSE Loaded([i \in 1..Len(m) |-> claudeLoadCredentialFile(m[i], ProxyPath("claude", i))], << >>, "", FALSE)

\* ClaudeProvider.loadCredentials, after its call of DetectCredentialSource
claudeLoadCredentials(src, f) ==
    IF src = "native" THEN claudeLoadNativeCredentials(f)
    ELSE LET m == Glob(f, "claude", "claude") IN
         IF Len(m) = 0
         THEN Loaded(<< >>, << >>, "No credential files found matching", FALSE)
         ELSE Loaded([i \in 1..Len(m) |-> claudeLoadCredentialFile(m[i], ProxyPath("claude", i))], << >>, "", FALSE)

\* variant: every account gets the path of the first file
codexLoadCredentialFileOnePath(kind, path) ==
    CASE kind = "valid" -> LoadedAccount("T0", "R0", FALSE, ProxyPath("codex", 1), "", "")
      [] kind = "malformed" -> LoadedAccount("", "", FALSE, "", "failed to parse JSON", "")
      [] kind = "notoken" -> LoadedAccount("", "", FALSE, "", "missing access_token", "")

\* CodexProvider.loadCredentialFile and the account loadCredentials makes of
\* its error
codexLoadCredentialFile(kind, path) ==
    CASE kind = "valid" -> LoadedAccount("T0", "R0", FALSE, path, "", "")
      [] kind = "malformed" -> LoadedAccount("", "", FALSE, "", "failed to parse JSON", "")
      [] kind = "notoken" -> LoadedAccount("", "", FALSE, "", "missing access_token", "")

\* variant: the account of a valid native file is not marked native
codexLoadNativeCredentialsUnmarked(f) ==
    CASE f.native = "missing" -> Loaded(<< >>, << >>, "", TRUE)
      [] f.native = "malformed" ->
           Loaded(<<LoadedAccount("", "", TRUE, NativePath("codex"), "failed to parse", "")>>, << >>, "", TRUE)
      [] f.native = "notoken" ->
           Loaded(<<LoadedAccount("", "", TRUE, NativePath("codex"), "no access token found in", "")>>,
                  << >>, "", TRUE)
      [] f.native = "valid" ->
           Loaded(<<LoadedAccount("T0", "R0", FALSE, NativePath("codex"), "", "")>>,
                  << >>, "", TRUE)

\* CodexProvider.loadNativeCredentials
codexLoadNativeCredentials(f) ==
    CASE f.native = "missing" -> Loaded(<< >>, << >>, "", TRUE)
      [] f.native = "malformed" ->
           Loaded(<<LoadedAccount("", "", TRUE, NativePath("codex"), "failed to parse", "")>>, << >>, "", TRUE)
      [] f.native = "notoken" ->
           Loaded(<<LoadedAccount("", "", TRUE, NativePath("codex"), "no access token found in", "")>>,
                  << >>, "", TRUE)
      [] f.native = "valid" ->
           Loaded(<<LoadedAccount("T0", "R0", TRUE, NativePath("codex"), "", "")>>, << >>, "", TRUE)

\* variant: the native file is the fallback of a vendor without proxy file
codexLoadCredentialsFallback(src, f) ==
    IF src = "native" \/ Len(Glob(f, "codex", "codex")) = 0
    THEN codexLoadNativeCredentials(f)
    ELSE LET m == Glob(f, "codex", "codex") IN
         Loaded([i \in 1..Len(m) |-> codexLoadCredentialFile(m[i], ProxyPath("codex", i))], << >>, "", FALSE)

\* CodexProvider.loadCredentials, after its call of DetectCredentialSource
codexLoadCredentials(src, f) ==
    IF src = "native" THEN codexLoadNativeCredentials(f)
    ELSE LET m == Glob(f, "codex", "codex") IN
         Loaded([i \in 1..Len(m) |-> codexLoadCredentialFile(m[i], ProxyPath("codex", i))], << >>, "", FALSE)

\* the positions from k on of the elements of m that are in keep, in order
RECURSIVE SelectIndexes(_, _, _)
SelectIndexes(m, keep, k) ==
    IF k > Len(m) THEN << >>
    ELSE IF m[k] \in keep THEN <<k>> \o SelectIndexes(m, keep, k + 1)
    ELSE SelectIndexes(m, keep, k + 1)

\* the elements of m that are in keep, in order
RECURSIVE SelectKinds(_, _)
SelectKinds(m, keep) ==
    IF m = << >> THEN << >>
    ELSE IF Head(m) \in keep THEN <<Head(m)>> \o SelectKinds(Tail(m), keep)
    ELSE SelectKinds(Tail(m), keep)

\* GeminiProvider.loadCredentials: it scans the proxy pattern whatever the
\* credential source is; a file that does not parse becomes a warning and
\* no account
geminiLoadCredentials(f) ==
    LET m    == Glob(f, "gemini", "gemini")
        good == SelectIndexes(m, {"valid"}, 1)
        bad  == SelectKinds(m, FileKinds \ {"valid"})
    IN Loaded([i \in 1..Len(good) |->
                  LoadedAccount("T0", "R0", FALSE, ProxyPath("gemini", good[i]), "",
                                "client-id")],
              [i \in 1..Len(bad) |-> "Failed to parse"], "", FALSE)

\* the loader of vendor v, src being what its DetectCredentialSource call
\* returned
loadCredentials(v, src, f) ==
    CASE v = "claude" -> claudeLoadCredentials(src, f)
      [] v = "codex"  -> codexLoadCredentials(src, f)
      [] v = "gemini" -> geminiLoadCredentials(f)

(***************************************************************************)
(* fetchAccountUsage as FetchUsage sees it: the outcomes it may return     *)
(* for an account, whatever the servers answer (the fetch itself is the    *)
(* machine of Spec).                                                       *)
(***************************************************************************)
\* the error fetchAccountUsage makes of an answer of the quota endpoint
QuotaError(v, ans) ==
    CASE v = "claude" -> fetchUsageFromAPI(ans)
      [] v = "codex"  -> fetchUsageWithToken(ans)
      [] v = "gemini" ->
           IF ans.kind = "neterr" THEN doQuotaRequest(ans)
           ELSE IF ans.status # StatusOK
           THEN [err |-> "API returned status", status |-> ans.status]
           ELSE IF ~ans.decodable THEN Err("failed to parse response")
           ELSE NoErr

\* the rows fetchAccountUsage makes of a decoded answer
RowsOf(v, ans) ==
    CASE v = "claude" -> parseUsageResponse(ans)
      [] v = "codex"  -> codexRows(ans)
      [] v = "gemini" -> geminiRows(ans)

\* the errors refreshAccessToken may return
RefreshErrors(v, a) ==
    {Err(RefreshPrecheck(v, a))}
    \cup {refreshError(v, a, ans) : ans \in RefreshAnswers}
    \cup {Err(m) : m \in UpdateErrors}

AccountOutcomes(v, a) ==
    IF a.Token = "" THEN {NoTokenError(v, a)}
    ELSE {Ok(RowsOf(v, ans)) : ans \in {q \in QuotaAnswers : QuotaError(v, q) = NoErr}}
         \cup {Failed(e, "") :
                 e \in ({QuotaError(v, ans) : ans \in QuotaAnswers}
                        \cup RefreshErrors(v, a)) \ {NoErr}}

\* the access tokens the refresh of each vendor may hand to
\* fetchAccountUsage
RefreshedTokensOf ==
    [v \in Vendors |-> {ParseRefresh(v, b).AccessToken : b \in RefreshBodies} \ {""}]

RefreshedTokens(v) == RefreshedTokensOf[v]

\* fetchAccountUsage's copy of account a when it returns: a itself, or what
\* a successful refresh made of it
AccountCopies(v, a) ==
    {a} \cup (IF a.Token = "" THEN {}
              ELSE {AccountAfterRefresh(v, a, t) : t \in RefreshedTokens(v)})

\* under Spec every step leaves the account variable among these copies
FetchKeepsAccountCopy == [][account' \in AccountCopies(vendor, account)]_vars

\* under Spec a fetch ends with one of these outcomes
FetchEndsInOutcomes == pc = "Done" => result \in AccountOutcomes(vendor, account)

(***************************************************************************)
(* main and FetchUsage of one vendor.                                      *)
(***************************************************************************)
\* no fetch of Spec is running
FetchOff ==
    /\ account = LoadedAccount("", "", FALSE, "", "", "")
    /\ pc = "Off"
    /\ file = [data |-> NoData, mode |-> "0600"]
    /\ file0 = file
    /\ tmp = NoTmp
    /\ rr = NoRR
    /\ encoded = NoData
    /\ quotaSent = << >>
    /\ refreshSent = 0
    /\ refreshOK = FALSE
    /\ tmpCreates = 0
    /\ lastAns = NoAnswer
    /\ result = NoResult
    /\ ctxDone = FALSE

LoadInit ==
    /\ vendor \in Vendors
    /\ FetchOff
    /\ JwtOff
    /\ FnOff
    /\ homeDir \in {"", "/home/u"}
    /\ fs \in FsStates
    /\ fsChanges = 0
    /\ upc = "Main"
    /\ detected = [u \in Uses |-> ""]
    /\ accounts = << >>
    /\ idx = 1
    /\ outcomes = << >>
    /\ rows = << >>
    /\ nativeRead = FALSE
    /\ fetchErr = ""

\* a warning row that belongs to no account
WarningRow(msg) == [acct |-> 0, warning |-> TRUE, msg |-> msg]

\* the rows of account i: its warning row, or the rows of its answer
AccountRows(i, res) ==
    IF res.state = "Failed" THEN <<[acct |-> i, warning |-> TRUE, msg |-> ""]>>
    ELSE [k \in 1..res.rows |-> [acct |-> i, warning |-> k <= res.warnings, msg |-> ""]]

\* main: os.UserHomeDir succeeded, the source is detected for the display
MainDetect ==
    /\ upc = "Main"
    /\ upc' = "Start"
    /\ detected' = IF homeDir = "" THEN detected
                   ELSE [detected EXCEPT !["main"] = DetectCredentialSource(homeDir, fs, vendor)]
    /\ UNCHANGED <<vendor, fvars, jvars, homeDir, fs, fsChanges, accounts, idx, outcomes,
                   rows, nativeRead, fetchErr>>

\* loadCredentials of Claude and Codex: the call of DetectCredentialSource
LoaderDetect ==
    /\ upc = "Start"
    /\ vendor \in {"claude", "codex"}
    /\ upc' = "Load"
    /\ detected' = [detected EXCEPT !["loader"] = DetectCredentialSource(homeDir, fs, vendor)]
    /\ UNCHANGED <<vendor, fvars, jvars, homeDir, fs, fsChanges, accounts, idx, outcomes,
                   rows, nativeRead, fetchErr>>

\* FetchUsage after loadCredentials returned r: where it goes on, the rows
\* it has and the error it returns
claudeFetchUsageLoaded(r) ==
    IF r.err # "" THEN [upc |-> "Out", rows |-> <<WarningRow(r.err)>>, err |-> ""]
    ELSE IF Len(r.accounts) = 0 THEN [upc |-> "Warn", rows |-> << >>, err |-> ""]
    ELSE [upc |-> "Loop", rows |-> << >>, err |-> ""]

codexFetchUsageLoaded(r) ==
    IF r.err # "" THEN [upc |-> "Out", rows |-> << >>, err |-> r.err]
    ELSE IF Len(r.accounts) = 0 THEN [upc |-> "Warn", rows |-> << >>, err |-> ""]
    ELSE [upc |-> "Loop", rows |-> << >>, err |-> ""]

geminiFetchUsageLoaded(r) ==
    LET ws == [i \in 1..Len(r.warnings) |-> WarningRow(r.warnings[i])] IN
    IF Len(r.accounts) = 0
    THEN [upc |-> "Out",
          rows |-> Append(ws, WarningRow("No valid credential files found")),
          err |-> ""]
    ELSE [upc |-> "Loop", rows |-> ws, err |-> ""]

FetchUsageLoaded(v, r) ==
    CASE v = "claude" -> claudeFetchUsageLoaded(r)
      [] v = "codex"  -> codexFetchUsageLoaded(r)
      [] v = "gemini" -> geminiFetchUsageLoaded(r)

\* loadCredentials scans and reads the files; FetchUsage takes its result
Load ==
    /\ upc = IF vendor = "gemini" THEN "Start" ELSE "Load"
    /\ LET r == loadCredentials(vendor, detected["loader"], fs)
           n == FetchUsageLoaded(vendor, r)
       IN /\ accounts' = r.accounts
          /\ nativeRead' = r.nativeRead
          /\ upc' = n.upc
          /\ rows' = n.rows
          /\ fetchErr' = n.err
    /\ UNCHANGED <<vendor, fvars, jvars, homeDir, fs, fsChanges, detected, idx, outcomes>>

\* the text of the warning of a vendor without account
NoCredentialsWarning(v, src) ==
    IF src = "native" THEN "No credentials found in the native file of " \o v
    ELSE "No credential files found matching " \o v \o "-*.json"

\* FetchUsage of Claude and Codex with no account: DetectCredentialSource is
\* called again to word the warning
WarnDetect ==
    /\ upc = "Warn"
    /\ LET d == DetectCredentialSource(homeDir, fs, vendor) IN
         /\ detected' = [detected EXCEPT !["warning"] = d]
         /\ rows' = <<WarningRow(NoCredentialsWarning(vendor, d))>>
    /\ upc' = "Out"
    /\ UNCHANGED <<vendor, fvars, jvars, homeDir, fs, fsChanges, accounts, idx, outcomes,
                   nativeRead, fetchErr>>

\* variant: the first account that fails ends FetchUsage with its error
FetchAccountStopsAtFailure ==
    /\ upc = "Loop"
    /\ \E res \in AccountOutcomes(vendor, accounts[idx]) :
         /\ outcomes' = Append(outcomes, res.state)
         /\ account' \in AccountCopies(vendor, accounts[idx])
         /\ IF res.state = "Failed"
            THEN /\ fetchErr' = res.err
                 /\ upc' = "Out"
                 /\ UNCHANGED rows
            ELSE /\ rows' = rows \o AccountRows(idx, res)
                 /\ upc' = IF idx = Len(accounts) THEN "Out" ELSE "Loop"
                 /\ UNCHANGED fetchErr
    /\ idx' = idx + 1
    /\ UNCHANGED <<vendor, fkept, jvars, homeDir, fs, fsChanges, detected, accounts,
                   nativeRead>>

\* one round of FetchUsage's loop: fetchAccountUsage of the next account
\* returns, its rows or its warning row are appended
FetchAccount ==
    /\ upc = "Loop"
    /\ \E res \in AccountOutcomes(vendor, accounts[idx]) :
         /\ outcomes' = Append(outcomes, res.state)
         /\ account' \in AccountCopies(vendor, accounts[idx])
         /\ rows' = rows \o AccountRows(idx, res)
    /\ idx' = idx + 1
    /\ upc' = IF idx = Len(accounts) THEN "Out" ELSE "Loop"
    /\ UNCHANGED <<vendor, fkept, jvars, homeDir, fs, fsChanges, detected, accounts,
                   nativeRead, fetchErr>>

\* the loader of another vendor, in its own goroutine, calls
\* DetectCredentialSource
OtherLoaderDetect ==
    /\ upc # "Main"
    /\ detected["other"] = ""
    /\ detected' = [detected EXCEPT !["other"] = DetectCredentialSource(homeDir, fs, vendor)]
    /\ UNCHANGED <<vendor, fvars, jvars, homeDir, fs, fsChanges, upc, accounts, idx,
                   outcomes, rows, nativeRead, fetchErr>>

\* the changes another process may make: a proxy file of another vendor
\* appears or goes, a proxy file of this vendor appears or goes
FsSuccessors(f) ==
    {[f EXCEPT !.dirOK = TRUE, !.others = TRUE], [f EXCEPT !.others = FALSE]}
    \cup (IF Len(f.files) < MaxFiles
          THEN {[f EXCEPT !.dirOK = TRUE, !.files = Append(f.files, "valid")]}
          ELSE {})
    \cup (IF Len(f.files) > 0
          THEN {[f EXCEPT !.files = SubSeq(f.files, 1, Len(f.files) - 1)]}
          ELSE {})

\* another process (a CLI that logs in or out) changes the files while main
\* runs
FsChange ==
    /\ upc # "Main"
    /\ upc # "Out" \/ detected["other"] = ""
    /\ fsChanges < MaxFsChanges
    /\ fsChanges' = fsChanges + 1
    /\ \E f \in FsSuccessors(fs) \ {fs} : fs' = f
    /\ UNCHANGED <<vendor, fvars, jvars, homeDir, upc, detected, accounts, idx, outcomes,
                   rows, nativeRead, fetchErr>>

LoadNext ==
    \/ MainDetect
    \/ LoaderDetect
    \/ Load
    \/ WarnDetect
    \/ FetchAccount
    \/ OtherLoaderDetect
    \/ FsChange

LoadSpec == LoadInit /\ [][LoadNext]_vars

(***************************************************************************)
(* Properties of LoadSpec.                                                 *)
(***************************************************************************)
\* FetchUsage is past its call of loadCredentials
LoadDone == upc \in {"Loop", "Warn", "Out"}

\* the positions in rows of the rows of account i
RowsOfAccount(i) == {k \in DOMAIN rows : rows[k].acct = i}

\* C15: FetchUsage returns no error; its loop gives every loaded account an
\* outcome, whatever the outcomes of the accounts before it; a failed
\* account has exactly one row, a warning row, and an account that did not
\* fail has the rows of its answer.
C15_AccountFailuresScoped ==
    /\ fetchErr = ""
    /\ upc \in {"Loop", "Out"} => Len(outcomes) = idx - 1
    /\ (upc = "Out" /\ accounts # << >>) => Len(outcomes) = Len(accounts)
    /\ \A i \in DOMAIN outcomes :
         /\ outcomes[i] \in {"Ok", "Failed"}
         /\ outcomes[i] = "Failed" =>
              /\ Cardinality(RowsOfAccount(i)) = 1
              /\ \A k \in RowsOfAccount(i) : rows[k].warning
    /\ \A k \in DOMAIN rows : rows[k].acct \in {0} \cup DOMAIN outcomes

\* the first account failed (it did not load), the second one got its rows
C15_Witness ==
    /\ upc = "Out"
    /\ Len(accounts) = 2
    /\ accounts[1].LoadErr # ""
    /\ outcomes = <<"Failed", "Ok">>
    /\ \E k \in RowsOfAccount(2) : ~rows[k].warning

\* C17: as long as the files have not changed, every value
\* DetectCredentialSource returned is Native for an empty homeDir, else
\* Proxy exactly when a proxy file of any vendor exists in a directory that
\* can be scanned, else Native; it is never anything else.
C17_DetectAnyVendorMatch ==
    fsChanges = 0 =>
        \A u \in Uses :
            detected[u] # "" =>
                detected[u] = IF homeDir = "" THEN "native"
                              ELSE IF fs.dirOK /\ (Len(fs.files) > 0 \/ fs.others)
                              THEN "proxy"
                              ELSE "native"

\* the loader got Proxy though the vendor itself has no proxy file
C17_Witness ==
    /\ detected["loader"] = "proxy"
    /\ fs.files = << >>
    /\ fs.others
    /\ fsChanges = 0

\* the source the loader of the vendor acts on
LoaderSource == IF vendor = "gemini" THEN "proxy" ELSE detected["loader"]

C19_OneSourcePerRun ==
    \A u \in Uses, w \in Uses :
        (detected[u] # "" /\ detected[w] # "") => detected[u] = detected[w]

CountKinds(m, keep) == Cardinality({i \in DOMAIN m : m[i] \in keep})

C21_TokenOrLoadErrNotBoth ==
    /\ \A i \in DOMAIN accounts :
         ~(accounts[i].Token # "" /\ accounts[i].LoadErr # "")
    /\ ~(account.Token # "" /\ account.LoadErr # "")

\* a file that did not load and one that did, both fetched
C21_Witness ==
    /\ upc = "Out"
    /\ Len(accounts) = 2
    /\ accounts[1].Token = ""
    /\ accounts[1].LoadErr # ""
    /\ accounts[2].Token # ""
    /\ accounts[2].LoadErr = ""
    /\ account.Token # ""
    /\ Len(outcomes) = 2

\* C22: an account is native exactly when the loader that returned it read
\* the native file, in every state after the load; and the copy
\* fetchAccountUsage worked on is native exactly when the loaded account is.
C22_IsNativeFixedAtLoad ==
    /\ \A i \in DOMAIN accounts : accounts[i].IsNative = nativeRead
    /\ Len(outcomes) >= 1 => account.IsNative = accounts[Len(outcomes)].IsNative

\* a native account with a token was fetched and is still native
C22_Witness ==
    /\ upc = "Out"
    /\ nativeRead
    /\ Len(accounts) = 1
    /\ accounts[1].IsNative
    /\ accounts[1].Token # ""
    /\ outcomes = <<"Ok">>
    /\ account.IsNative

\* C23: when the loader acts on Native and the native file is missing or
\* unreadable, the vendor gets no account, FetchUsage returns no error and
\* no row at all (no warning row).
C23_NativeMissingSilent ==
    (LoadDone /\ detected["loader"] = "native" /\ fs.native = "missing") =>
        /\ accounts = << >>
        /\ fetchErr = ""
        /\ rows = << >>

RefreshEligible(v, a) ==
    a.Token # "" /\ a.CredentialPath # "" /\ RefreshPrecheck(v, a) = ""

\* the paths the proxy pattern of vendor v can match
PatternPaths(v) == {ProxyPath(v, i) : i \in 1..MaxFiles}

\* C25: FetchUsage fetches the accounts of a vendor one after the other;
\* the credential paths of the accounts it may refresh are pairwise
\* distinct, each one matches the proxy pattern of the vendor itself and
\* none matches the pattern of another vendor or is a native file.
C25_NoSharedCredentialFile ==
    /\ Len(outcomes) <= Len(accounts)
    /\ upc = "Loop" => idx = Len(outcomes) + 1
    /\ \A i \in DOMAIN accounts, j \in DOMAIN accounts :
         (i # j /\ RefreshEligible(vendor, accounts[i]) /\ RefreshEligible(vendor, accounts[j]))
             => accounts[i].CredentialPath # accounts[j].CredentialPath
    /\ \A i \in DOMAIN accounts :
         RefreshEligible(vendor, accounts[i]) =>
             /\ accounts[i].CredentialPath \in PatternPaths(vendor)
             /\ \A w \in Vendors :
                  /\ accounts[i].CredentialPath # NativePath(w)
                  /\ w # vendor => accounts[i].CredentialPath \notin PatternPaths(w)

\* two accounts that may be refreshed, both fetched
C25_Witness ==
    /\ upc = "Out"
    /\ Len(accounts) = 2
    /\ RefreshEligible(vendor, accounts[1])
    /\ RefreshEligible(vendor, accounts[2])
    /\ Len(outcomes) = 2

\* the HTTP calls and the file rewrite of one fetch stay within their number,
\* and a fetch that ends after the context is done ends in a failure
FetchBounded ==
    /\ Len(quotaSent) <= 2
    /\ refreshSent <= 1
    /\ tmpCreates <= 1
    /\ (pc = "Done" /\ ctxDone) => result.state = "Failed"

\* an HTTP call that ends after the context is done ends with the error of
\* the transport
CancelledCallFails ==
    (ctxDone /\ pc \in {"Requested", "Refreshing", "Retrying"} /\ pc' # pc) =>
        /\ pc' = "Done"
        /\ result'.state = "Failed"
        /\ pc # "Refreshing" => lastAns'.kind = "neterr"
        /\ UNCHANGED <<quotaSent, refreshSent, tmpCreates, file>>

\* C26: a fetch makes at most three HTTP calls and one file rewrite and
\* reaches Done; once the context is done every HTTP call that is in flight
\* or sent afterwards fails with the transport's error, and the fetch ends
\* in a failure.
C26_FetchTerminates ==
    /\ []FetchBounded
    /\ [][CancelledCallFails]_vars
    /\ <>(pc = "Done")

\* the context was cancelled during the rewrite of a refresh: three HTTP
\* calls and one rewrite were made, and the fetch ended in a failure
C26_Witness ==
    /\ pc = "Done"
    /\ ctxDone
    /\ Len(quotaSent) = 2
    /\ refreshSent = 1
    /\ tmpCreates = 1
    /\ lastAns.kind = "neterr"
    /\ result.state = "Failed"

\* C29: the retried quota request is sent only after the rewrite of the
\* credential file succeeded: while the rewrite runs, and after it failed,
\* one quota request has been sent; once the retried request is out the
\* temporary file is renamed into place and the file holds the new access
\* token and, for Claude and Codex, the new refresh token when the answer
\* gave one; it still holds them when the retried request has failed.
C29_RewriteBeforeRetry ==
    /\ pc \in UpdateSteps => Len(quotaSent) = 1
    /\ (pc = "Done" /\ result.err \in UpdateErrors) => Len(quotaSent) = 1
    /\ Len(quotaSent) = 2 =>
         /\ pc \in {"Retrying", "Done"}
         /\ tmpCreates = 1
         /\ tmp = NoTmp
         /\ encoded.kind = "json"
         /\ file.data = encoded
         /\ file.data.m[AccessKey(vendor)] = JStr(rr.AccessToken)
         /\ (vendor # "gemini" /\ rr.RefreshToken # "")
                => file.data.m["refresh_token"] = JStr(rr.RefreshToken)

\* the retried request failed after a rewrite that rotated both tokens
C29_Witness ==
    /\ pc = "Done"
    /\ Len(quotaSent) = 2
    /\ result.state = "Failed"
    /\ rr.RefreshToken # ""
    /\ file.data.m["access_token"] = JStr(rr.AccessToken)
    /\ file.data.m["refresh_token"] = JStr(rr.RefreshToken)
    /\ file0.data.m["refresh_token"] # JStr(rr.RefreshToken)

\* C30: for an account without credential path a refresh never succeeds:
\* no update of a file is started, no temporary file is created, the file
\* is as it was, no retried request carries a new token, and a fetch that
\* sent the refresh request ends Failed.
C30_NoPathNoRefresh ==
    account.CredentialPath = "" =>
        /\ pc \notin UpdateSteps \cup {"Retrying"}
        /\ Len(quotaSent) <= 1
        /\ tmpCreates = 0
        /\ tmp = NoTmp
        /\ file = file0
        /\ rr = NoRR
        /\ account.Token \notin RefreshedTokens(vendor)
        /\ (refreshSent = 1 /\ pc = "Done") => result.state = "Failed"

\* the token endpoint answered with a new token, and the fetch ended with
\* the error of the missing path
C30_Witness ==
    /\ pc = "Done"
    /\ account.CredentialPath = ""
    /\ refreshSent = 1
    /\ refreshOK
    /\ result.state = "Failed"
    /\ result.err = "credential path not available for refresh"
    /\ file = file0

(***************************************************************************)
(* Part 3.  The claims of a Codex token: decodeJWTClaims and the client id *)
(* the two loaders of the Codex provider take from the tokens of a file.   *)
(* A token is JWT(parts, sx, pad); bytes are numbers 0..255, base64url     *)
(* characters are their 6-bit values 0..63.                                *)
(***************************************************************************)
\* the largest number of '=' at the end of a payload
MaxPad == 2
\* the largest number of dot-separated parts of a token
MaxParts == 3
MaxCodexFiles == 3    \* Codex proxy files whose display names are computed
MaxRows == 2          \* rows one FetchUsage returns to main
MaxBody == 4          \* bytes of a response body handed to TruncateBody

codexDefaultClientID == "app_EMoamEEZ73f0CkXaXp7hrann"

\* the aud claim of a JSON document
AudAbsent == [kind |-> "absent", s |-> "", list |-> << >>]
AudString(x) == [kind |-> "string", s |-> x, list |-> << >>]
AudList(l) == [kind |-> "list", s |-> "", list |-> l]

\* the JSON documents of the model: their text as bytes (ASCII) and the
\* map json.Unmarshal makes of them (client_id "" when the key is absent)
JSONDocs ==
    <<
       \* {}
       [bytes |-> <<123, 125>>,
        claims |-> [client_id |-> "", aud |-> AudAbsent]],
       \* {"aud":"a"}
       [bytes |-> <<123, 34, 97, 117, 100, 34, 58, 34, 97, 34, 125>>,
        claims |-> [client_id |-> "", aud |-> AudString("a")]],
       \* {"aud":""}
       [bytes |-> <<123, 34, 97, 117, 100, 34, 58, 34, 34, 125>>,
        claims |-> [client_id |-> "", aud |-> AudString("")]],
       \* {"client_id":"c"}
       [bytes |-> <<123, 34, 99, 108, 105, 101, 110, 116, 95, 105, 100, 34, 58, 34, 99, 34, 125>>,
        claims |-> [client_id |-> "c", aud |-> AudAbsent]],
       \* {"aud":["","a"]}
       [bytes |-> <<123, 34, 97, 117, 100, 34, 58, 91, 34, 34, 44, 34, 97, 34, 93, 125>>,
        claims |-> [client_id |-> "", aud |-> AudList(<<"", "a">>)]],
       \* {"client_id":"c","aud":"a"}
       [bytes |-> <<123, 34, 99, 108, 105, 101, 110, 116, 95, 105, 100, 34, 58, 34, 99, 34, 44, 34, 97, 117, 100, 34, 58, 34, 97, 34, 125>>,
        claims |-> [client_id |-> "c", aud |-> AudString("a")]]
    >>

\* the result of decodeJWTClaims
ClaimsErr(msg) == [err |-> msg, claims |-> "none"]
ClaimsOk(c) == [err |-> "", claims |-> c]

\* json.Unmarshal(decoded, &claims)
Unmarshal(bytes) ==
    IF \E d \in DOMAIN JSONDocs : JSONDocs[d].bytes = bytes
    THEN ClaimsOk(JSONDocs[CHOOSE d \in DOMAIN JSONDocs : JSONDocs[d].bytes = bytes].claims)
    ELSE ClaimsErr("invalid JSON")

\* base64url of RFC 4648 without padding: the characters of a byte string,
\* the unused low bits of the last character being zero
Base64Encode(bytes) ==
    LET n == Len(bytes)
        B(i) == IF i <= n THEN bytes[i] ELSE 0
        Char(j) ==
            LET base == 3 * ((j - 1) \div 4)
                r == (j - 1) % 4
            IN CASE r = 0 -> B(base + 1) \div 4
                 [] r = 1 -> (B(base + 1) % 4) * 16 + B(base + 2) \div 16
                 [] r = 2 -> (B(base + 2) % 16) * 4 + B(base + 3) \div 64
                 [] r = 3 -> B(base + 3) % 64
    IN [j \in 1..((8 * n + 5) \div 6) |-> Char(j)]

\* the bytes of a run of base64url characters whose length is not 1 modulo
\* 4: three bytes for four characters, the low bits of an incomplete last
\* group dropped (the encodings of the code are not Strict)
Base64Bytes(sx) ==
    LET Byte(k) ==
            LET base == 4 * ((k - 1) \div 3)
                r == (k - 1) % 3
            IN CASE r = 0 -> sx[base + 1] * 4 + sx[base + 2] \div 16
                 [] r = 1 -> (sx[base + 2] % 16) * 16 + sx[base + 3] \div 4
                 [] r = 2 -> (sx[base + 3] % 4) * 64 + sx[base + 4]
    IN [k \in 1..((6 * Len(sx)) \div 8) |-> Byte(k)]

\* the decoders answer with the bytes or with CorruptInputError
Decoded(bytes) == [ok |-> TRUE, bytes |-> bytes]
CorruptInput == [ok |-> FALSE, bytes |-> << >>]

\* base64.RawURLEncoding.DecodeString: '=' is not a character of the
\* alphabet, a single character left over is an error
RawURLDecode(sx, pad) ==
    IF pad = 0 /\ Len(sx) % 4 # 1 THEN Decoded(Base64Bytes(sx)) ELSE CorruptInput

\* base64.URLEncoding.DecodeString: the input is whole groups of four, the
\* last one filled with '=' after two or three characters and nothing after
URLDecode(sx, pad) ==
    IF \/ Len(sx) % 4 = 0 /\ pad = 0
       \/ Len(sx) % 4 = 2 /\ pad = 2
       \/ Len(sx) % 4 = 3 /\ pad = 1
    THEN Decoded(Base64Bytes(sx))
    ELSE CorruptInput

\* variant: the payload is decoded as unpadded base64url only
decodeJWTClaimsRawOnly(tok) ==
    IF tok.parts < 2 THEN ClaimsErr("invalid token")
    ELSE LET raw == RawURLDecode(tok.sx, tok.pad) IN
         IF raw.ok THEN Unmarshal(raw.bytes) ELSE ClaimsErr("illegal base64 data")

\* decodeJWTClaims: the second part of the token, decoded as unpadded
\* base64url and, when that fails, once more as padded base64url with
\* (4 - len % 4) % 4 more '=' at its end
decodeJWTClaims(tok) ==
    IF tok.parts < 2 THEN ClaimsErr("invalid token")
    ELSE LET raw == RawURLDecode(tok.sx, tok.pad) IN
         IF raw.ok THEN Unmarshal(raw.bytes)
         ELSE LET padding == (4 - ((Len(tok.sx) + tok.pad) % 4)) % 4
                  padded == URLDecode(tok.sx, tok.pad + padding)
              IN IF padded.ok THEN Unmarshal(padded.bytes)
                 ELSE ClaimsErr("illegal base64 data")

RECURSIVE FirstNonEmpty(_)
\* the first non-empty string of a list, "" when there is none
FirstNonEmpty(l) ==
    IF l = << >> THEN ""
    ELSE IF Head(l) # "" THEN Head(l)
    ELSE FirstNonEmpty(Tail(l))

\* extractClientID: client_id when it is a non-empty string, else aud when
\* it is a string, else the first non-empty string of the list aud
extractClientID(claims) ==
    IF claims.client_id # "" THEN claims.client_id
    ELSE CASE claims.aud.kind = "string" -> claims.aud.s
           [] claims.aud.kind = "list" -> FirstNonEmpty(claims.aud.list)
           [] OTHER -> ""

\* extractExplicitClientID
extractExplicitClientID(tok) ==
    LET c == decodeJWTClaims(tok) IN
    IF c.err # "" THEN "" ELSE c.claims.client_id

\* extractFromToken (the client id it returns)
extractFromToken(tok) ==
    LET c == decodeJWTClaims(tok) IN
    IF c.err # "" THEN "" ELSE extractClientID(c.claims)

\* extractCodexAuthDetails (the client id it returns)
extractCodexAuthDetails(accessToken, idToken) ==
    LET fromID == extractFromToken(idToken)
        explicit == IF fromID = "" THEN extractExplicitClientID(accessToken) ELSE fromID
    IN IF explicit = "" THEN codexDefaultClientID ELSE explicit

\* the payloads of the tokens: the documents encoded, the same with the
\* last character cut off, and the empty payload
Payloads ==
    LET enc == {Base64Encode(JSONDocs[d].bytes) : d \in DOMAIN JSONDocs}
    IN enc \cup {SubSeq(sx, 1, Len(sx) - 1) : sx \in enc} \cup {<< >>}

\* the tokens of a credential file: a string without dot, or parts with a
\* payload followed by up to MaxPad '='
Tokens ==
    {NoJWT} \cup {JWT(p, sx, pad) : p \in 2..MaxParts, sx \in Payloads, pad \in 0..MaxPad}

JwtInit ==
    /\ vendor = "codex"
    /\ FetchOff
    /\ UsageOff
    /\ FnOff
    /\ jAccess \in Tokens
    /\ jID \in Tokens
    /\ jpc = "Start"
    /\ jClaims = NoClaims
    /\ jClientID = ""

\* decodeJWTClaims(creds.Tokens.AccessToken)
JwtDecode ==
    /\ jpc = "Start"
    /\ jClaims' = decodeJWTClaims(jAccess)
    /\ jpc' = "Decoded"
    /\ UNCHANGED <<vendor, fvars, uvars, fnvars, dvars, mvars, jAccess, jID, jClientID>>

\* CodexProvider.loadCredentialFile: the client id of a proxy account
JwtLoadCredentialFile ==
    /\ jpc = "Start"
    /\ jClientID' = extractCodexAuthDetails(jAccess, jID)
    /\ jpc' = "Proxy"
    /\ UNCHANGED <<vendor, fvars, uvars, fnvars, dvars, mvars, jAccess, jID, jClaims>>

\* CodexProvider.loadNativeCredentials: the client id of the native account
JwtLoadNativeCredentials ==
    /\ jpc = "Start"
    /\ jClientID' = extractFromToken(jAccess)
    /\ jpc' = "Native"
    /\ UNCHANGED <<vendor, fvars, uvars, fnvars, dvars, mvars, jAccess, jID, jClaims>>

JwtNext ==
    \/ JwtDecode
    \/ JwtLoadCredentialFile
    \/ JwtLoadNativeCredentials

JwtSpec == JwtInit /\ [][JwtNext]_vars

(***************************************************************************)
(* Properties of JwtSpec.                                                  *)
(***************************************************************************)
\* the number of '=' that fill a payload of n characters to whole groups
CanonicalPad(n) == (4 - (n % 4)) % 4

\* C27: decodeJWTClaims returns the same for a token whose payload is
\* unpadded and for the same token with the payload filled with '=' to a
\* multiple of four characters: the same claims or the same error.
C27_PaddingInsensitive ==
    (jpc = "Decoded" /\ jAccess.pad \in {0, CanonicalPad(Len(jAccess.sx))}) =>
        /\ jClaims = decodeJWTClaims(JWT(jAccess.parts, jAccess.sx, 0))
        /\ jClaims = decodeJWTClaims(JWT(jAccess.parts, jAccess.sx,
                                         CanonicalPad(Len(jAccess.sx))))

\* a payload of 22 characters followed by "==" was decoded into its claims
C27_Witness ==
    /\ jpc = "Decoded"
    /\ Len(jAccess.sx) % 4 = 2
    /\ jAccess.pad = 2
    /\ jClaims.err = ""
    /\ jClaims.claims.aud.kind = "list"

\* C28: the client id of a loaded Codex account is the client id of the ID
\* token (its client_id, else its aud), else the client_id of the access
\* token, else the default client id; it is never the aud of the access
\* token.
C28_ClientIDNotFromAccessAud ==
    jpc \in {"Proxy", "Native"} =>
        jClientID =
            IF extractFromToken(jID) # "" THEN extractFromToken(jID)
            ELSE IF extractExplicitClientID(jAccess) # ""
            THEN extractExplicitClientID(jAccess)
            ELSE codexDefaultClientID

(***************************************************************************)
(* Further properties of Spec.                                             *)
(***************************************************************************)
\* C31: the credential path is looked at, and the file rewritten, only
\* after the answer of the token endpoint: a fetch that ends with the error
\* of the missing path, or with an error of the update, or that is in the
\* update, has sent its one refresh request and got a new access token; and
\* an account without path that passes the checks made before the request
\* never ends with an error of those without the request being sent.
C31_ExchangeBeforePathCheck ==
    /\ (pc = "Done" /\ result.err = "credential path not available for refresh") =>
           /\ account.CredentialPath = ""
           /\ refreshSent = 1
           /\ refreshOK
    /\ (pc \in UpdateSteps \/ (pc = "Done" /\ result.err \in UpdateErrors)) =>
           /\ refreshSent = 1
           /\ refreshOK
    /\ (/\ account.CredentialPath = ""
        /\ account.Token # ""
        /\ RefreshPrecheck(vendor, account) = ""
        /\ pc = "Done"
        /\ result.state = "Failed"
        /\ lastAns.kind = "http"
        /\ lastAns.status = StatusUnauthorized) => refreshSent = 1

\* the token endpoint gave a new token to an account without path
C31_Witness ==
    /\ pc = "Done"
    /\ account.CredentialPath = ""
    /\ ~account.IsNative
    /\ account.RefreshToken # ""
    /\ lastAns.status = StatusUnauthorized
    /\ refreshSent = 1
    /\ refreshOK
    /\ result.err = "credential path not available for refresh"

(***************************************************************************)
(* Part 4.  Functions checked on their own.  Under RefreshParseSpec one    *)
(* behaviour is the handling of one answer of the token endpoint by the    *)
(* refreshAccessToken of one vendor.                                       *)
(***************************************************************************)
\* a non-native account with refresh token and credential path
RefreshableAccount(v) == LoadedAccount("T0", "R0", FALSE, ProxyPath(v, 1), "", "")

RefreshParseInit ==
    /\ vendor \in Vendors
    /\ FetchOff
    /\ UsageOff
    /\ JwtOff
    /\ DirOff
    /\ MainOff
    /\ fnpc = "Start"
    /\ fnIn \in RefreshAnswers
    /\ fnOut = "none"

\* refreshAccessToken from the answer of the token endpoint to the call of
\* the update function: the error it returns and the response it parsed
RefreshParse ==
    /\ fnpc = "Start"
    /\ fnpc' = "Parsed"
    /\ fnOut' = [err |-> refreshError(vendor, RefreshableAccount(vendor), fnIn),
                 rr |-> IF fnIn.kind = "http" /\ fnIn.status = StatusOK
                           /\ fnIn.body.kind = "json"
                        THEN ParseRefresh(vendor, fnIn.body) ELSE NoRR]
    /\ UNCHANGED <<vendor, fvars, uvars, jkept, dvars, mvars, fnIn>>

RefreshParseNext == RefreshParse

RefreshParseSpec == RefreshParseInit /\ [][RefreshParseNext]_vars

\* the alternative spellings of the keys of a refresh response
AccessSpellings == <<"access_token", "accessToken", "token">>
RefreshSpellings == <<"refresh_token", "refreshToken">>
ExpirySpellings == <<"expires_in", "expiresIn">>

\* the value of the first of the keys that holds a non-empty string
FirstUsable(b, keys) ==
    IF \A i \in DOMAIN keys : b.s[keys[i]] = "" THEN ""
    ELSE b.s[keys[CHOOSE i \in DOMAIN keys :
                    /\ b.s[keys[i]] # ""
                    /\ \A j \in 1..(i - 1) : b.s[keys[j]] = ""]]

\* the number under the first of the keys that is present
FirstNumber(b, keys) ==
    IF \A i \in DOMAIN keys : keys[i] \notin b.nk THEN 0
    ELSE b.n[keys[CHOOSE i \in DOMAIN keys :
                    /\ keys[i] \in b.nk
                    /\ \A j \in 1..(i - 1) : keys[j] \notin b.nk]]

\* the token endpoint answered 200 with a JSON object
ParsedJSON ==
    /\ fnpc = "Parsed"
    /\ fnIn.kind = "http"
    /\ fnIn.status = StatusOK
    /\ fnIn.body.kind = "json"

\* C32: for every vendor the access token, the refresh token and the expiry
\* delta of a refresh response are the values under the first of their
\* spellings that holds one, and the refresh fails for want of an access
\* token exactly when no spelling holds one.
C32_AnySpellingFound ==
    ParsedJSON =>
        /\ fnOut.rr.AccessToken = FirstUsable(fnIn.body, AccessSpellings)
        /\ vendor # "gemini" =>
               fnOut.rr.RefreshToken = FirstUsable(fnIn.body, RefreshSpellings)
        /\ fnOut.rr.ExpiresIn = FirstNumber(fnIn.body, ExpirySpellings)
        /\ (fnOut.err.err = "token refresh failed: empty access_token")
               <=> (FirstUsable(fnIn.body, AccessSpellings) = "")

\* C33: after a successful refresh of a Claude or Codex account the file
\* holds the new access token and last_refresh set to the time of the
\* update; refresh_token is as it was when the answer gave none, and expired
\* is as it was unless the answer gave a positive expiry delta, which sets
\* it to the time of the update plus the delta.
C33_KeepsWhatAnswerOmits ==
    (Refreshed /\ vendor \in {"claude", "codex"}) =>
        /\ file.data.m["access_token"] = JStr(rr.AccessToken)
        /\ file.data.m["last_refresh"] = formatCredentialTime(Now)
        /\ rr.RefreshToken = "" =>
               file.data.m["refresh_token"] = file0.data.m["refresh_token"]
        /\ file.data.m["expired"] =
               IF rr.ExpiresIn > 0 THEN formatCredentialTime(Now + rr.ExpiresIn)
               ELSE file0.data.m["expired"]

\* an answer without refresh token and without expiry delta: the file keeps
\* the refresh token and the expiry it held
C33_Witness ==
    /\ Refreshed
    /\ vendor = "codex"
    /\ rr.RefreshToken = ""
    /\ rr.ExpiresIn = 0
    /\ file.data.m["refresh_token"] = JStr("R0")
    /\ file.data.m["expired"] = file0.data.m["expired"]
    /\ file.data.m["expired"] # JAbsent
    /\ file.data.m["access_token"] # file0.data.m["access_token"]

\* C34 as stated: once writeFileAtomic has returned, with or without error,
\* no temporary file it created exists.
C34_NoTempAfterReturn ==
    pc \notin {"TmpWrite", "TmpChmod", "TmpClose", "Rename"} => ~tmp.present

\* C34: a fetch creates at most one temporary file, and only inside
\* writeFileAtomic; after a successful return it has been renamed onto the
\* credential path and none exists; after a failed return one exists only
\* as what a failed os.Remove left, the fetch having ended with the error
\* of the write and the credential file being as it was.
C34_TempOnlyAfterFailedWrite ==
    /\ tmpCreates <= 1
    /\ tmpCreates = 0 => tmp = NoTmp
    /\ pc \in {"Idle", "Requested", "Refreshing", "Updating", "CreateTemp", "Retrying"}
           => tmp = NoTmp
    /\ Refreshed => tmp = NoTmp
    /\ (pc = "Done" /\ tmp.present) =>
           /\ tmpCreates = 1
           /\ result.state = "Failed"
           /\ result.err = "failed to write credentials file"
           /\ file = file0

\* the write failed after the temporary file was created, and the file was
\* removed
C34_Witness ==
    /\ pc = "Done"
    /\ tmpCreates = 1
    /\ result.err = "failed to write credentials file"
    /\ tmp = NoTmp
    /\ file = file0
    /\ encoded.kind = "json"

\* C35: for an account with an access token, whatever its expiry (unknown,
\* past or future), the first request of the fetch is the quota request
\* with the token the account was loaded with, and a refresh request is
\* sent only after that request was answered 401 or 403.
C35_ExpiryNeverGates ==
    account.Token # "" =>
        /\ pc # "Idle" => (Len(quotaSent) >= 1 /\ quotaSent[1] = "T0")
        /\ refreshSent >= 1 => Len(quotaSent) >= 1
        /\ (refreshSent >= 1 /\ Len(quotaSent) = 1) =>
               /\ lastAns.kind = "http"
               /\ lastAns.status \in {StatusUnauthorized, StatusForbidden}
        /\ pc = "Requested" => refreshSent = 0

\* an account whose expiry has passed got its rows without any refresh
C35_Witness ==
    /\ pc = "Done"
    /\ account.ExpiresAt = OldTime
    /\ OldTime < Now
    /\ account.RefreshToken # ""
    /\ quotaSent = <<"T0">>
    /\ refreshSent = 0
    /\ result.state = "Ok"

\* C36: a fetch ends Ok only if the answer to its last quota request had
\* status exactly 200 and a body that decodes; after any other answer
\* (a transport error, another status, 2xx included, or a 200 whose body
\* does not decode) the fetch ends in failure.
C36_OkOnlyAfterDecoded200 ==
    pc = "Done" =>
        /\ result.state \in {"Ok", "Failed"}
        /\ result.state = "Ok" =>
               /\ Len(quotaSent) >= 1
               /\ lastAns.kind = "http"
               /\ lastAns.status = StatusOK
               /\ lastAns.decodable
        /\ (lastAns.kind = "neterr" \/ lastAns.status # StatusOK \/ ~lastAns.decodable)
               => result.state = "Failed"

\* a fetch that was answered 204 with a body that would decode has failed
C36_Witness ==
    /\ pc = "Done"
    /\ lastAns.kind = "http"
    /\ lastAns.status = 204
    /\ lastAns.decodable
    /\ result.state = "Failed"
    /\ result.status = 204

(***************************************************************************)
(* Part 5: the directory <homeDir>/.cli-proxy-api while the goroutines of  *)
(* main run.  The goroutine of vendor rewrites one of its credential files *)
(* (writeFileAtomic); the goroutine of loader is in loadCredentials        *)
(* (DetectCredentialSource, then filepath.Glob of its own pattern).  File  *)
(* names and patterns are sequences of characters; a read of the directory *)
(* and a rename are single steps of the file system.                       *)
(***************************************************************************)
VendorChars ==
    [v \in Vendors |->
        CASE v = "claude" -> <<"c", "l", "a", "u", "d", "e">>
          [] v = "codex"  -> <<"c", "o", "d", "e", "x">>
          [] v = "gemini" -> <<"g", "e", "m", "i", "n", "i">>]

\* the base name of the proxy pattern of vendor v: <v>-*.json
VendorPattern(v) == VendorChars[v] \o <<"-", "*", ".", "j", "s", "o", "n">>

\* variant: the temporary file is named like a Codex credential file
TempPatternLikeCredential == <<"c", "o", "d", "e", "x", "-", "*", ".", "j", "s", "o", "n">>

\* the pattern writeFileAtomic hands to os.CreateTemp: .tmp-cred-*
TempPattern == <<".", "t", "m", "p", "-", "c", "r", "e", "d", "-", "*">>

RECURSIVE Match(_, _)
\* filepath.Match for a pattern of literal characters and '*': '*' matches
\* any sequence of characters other than the separator
Match(pattern, name) ==
    IF pattern = << >> THEN name = << >>
    ELSE IF Head(pattern) = "*"
    THEN \E k \in 0..Len(name) :
            /\ \A i \in 1..k : name[i] # "/"
            /\ Match(Tail(pattern), SubSeq(name, k + 1, Len(name)))
    ELSE /\ name # << >>
         /\ Head(name) = Head(pattern)
         /\ Match(Tail(pattern), Tail(name))

RECURSIVE LastStar(_)
\* the index of the last '*' of a pattern, 0 when it has none
LastStar(pattern) ==
    IF pattern = << >> THEN 0
    ELSE IF pattern[Len(pattern)] = "*" THEN Len(pattern)
    ELSE LastStar(SubSeq(pattern, 1, Len(pattern) - 1))

\* os.CreateTemp: the random string replaces the last '*' of the pattern, or
\* is appended to a pattern without one
TempName(pattern, random) ==
    LET k == LastStar(pattern) IN
    IF k = 0 THEN pattern \o random
    ELSE SubSeq(pattern, 1, k - 1) \o random \o SubSeq(pattern, k + 1, Len(pattern))

\* the random strings of os.CreateTemp: decimal numbers
Randoms == {<<"1">>, <<"7", "3">>}

\* the credential file of vendor v that is rewritten
CredName(v) == VendorChars[v] \o <<"-", "a", ".", "j", "s", "o", "n">>

\* other names the directory may hold: a second Codex account, a file no
\* pattern matches, a temporary file an earlier run left behind
OtherNames ==
    { <<"c", "o", "d", "e", "x", "-", "b", ".", "j", "s", "o", "n">>,
      <<"c", "l", "a", "u", "d", "e", ".", "j", "s", "o", "n">>,
      <<".", "t", "m", "p", "-", "c", "r", "e", "d", "-", "9">> }

AllNames ==
    {CredName(v) : v \in Vendors} \cup OtherNames
    \cup {TempName(TempPattern, r) : r \in Randoms}

\* the names each vendor's pattern matches
Matching == [v \in Vendors |-> {n \in AllNames : Match(VendorPattern(v), n)}]

\* filepath.Glob of the pattern of vendor v over the names d
GlobNames(d, v) == d \cap Matching[v]

\* the order in which DetectCredentialSource scans the patterns
DetectOrder == <<"claude", "codex", "gemini">>

\* DetectCredentialSource over a directory that does not change
DetectNames(d) ==
    IF \E v \in Vendors : GlobNames(d, v) # {} THEN "proxy" ELSE "native"

DirInit ==
    /\ vendor \in Vendors
    /\ FetchOff
    /\ UsageOff
    /\ JwtOff
    /\ MainOff
    /\ fnpc = "Off"
    /\ fnIn = "none"
    /\ fnOut = "none"
    /\ dir \in {d \in SUBSET ({CredName(v) : v \in Vendors} \cup OtherNames) :
                    CredName(vendor) \in d}
    /\ dir0 = dir
    /\ wpc = "Start"
    /\ wtmp = << >>
    /\ loader \in Vendors \ {vendor}
    /\ opc = IF loader = "gemini" THEN "Glob" ELSE "Detect1"
    /\ seen = [source |-> "", matches |-> {}]

\* writeFileAtomic: os.CreateTemp picks a name that does not exist, or fails
DirCreateTemp ==
    /\ wpc = "Start"
    /\ \/ \E r \in Randoms :
            /\ TempName(TempPattern, r) \notin dir
            /\ wtmp' = TempName(TempPattern, r)
            /\ dir' = dir \cup {wtmp'}
            /\ wpc' = "Temp"
       \/ /\ wpc' = "Done"
          /\ UNCHANGED <<dir, wtmp>>
    /\ UNCHANGED <<vendor, fvars, uvars, jkept, fnvars, mvars, dir0, loader, opc, seen>>

\* writeFileAtomic: Write, Chmod and Close of the temporary file
DirWrite ==
    /\ wpc = "Temp"
    /\ wpc' \in {"Closed", "Cleanup"}
    /\ UNCHANGED <<vendor, fvars, uvars, jkept, fnvars, mvars, dir, dir0, wtmp, loader, opc, seen>>

\* writeFileAtomic: os.Rename of the temporary file onto the credential path
DirRename ==
    /\ wpc = "Closed"
    /\ wpc' = "Cleanup"
    /\ \/ dir' = (dir \ {wtmp}) \cup {CredName(vendor)}
       \/ UNCHANGED dir
    /\ UNCHANGED <<vendor, fvars, uvars, jkept, fnvars, mvars, dir0, wtmp, loader, opc, seen>>

\* writeFileAtomic: the deferred os.Remove, its error is dropped
DirRemove ==
    /\ wpc = "Cleanup"
    /\ wpc' = "Done"
    /\ \/ dir' = dir \ {wtmp}
       \/ UNCHANGED dir
    /\ UNCHANGED <<vendor, fvars, uvars, jkept, fnvars, mvars, dir0, wtmp, loader, opc, seen>>

\* DetectCredentialSource in loadCredentials of Claude and Codex: the Glob
\* of its k-th pattern
DirDetect(k) ==
    /\ opc = "Detect" \o ToString(k)
    /\ IF GlobNames(dir, DetectOrder[k]) # {}
       THEN /\ seen' = [seen EXCEPT !.source = "proxy"]
            /\ opc' = "Glob"
       ELSE IF k < Len(DetectOrder)
       THEN /\ opc' = "Detect" \o ToString(k + 1)
            /\ UNCHANGED seen
       ELSE /\ seen' = [seen EXCEPT !.source = "native"]
            /\ opc' = "Done"
    /\ UNCHANGED <<vendor, fvars, uvars, jkept, fnvars, mvars, dir, dir0, wpc, wtmp, loader>>

\* loadCredentials: filepath.Glob of the vendor's own pattern
DirGlob ==
    /\ opc = "Glob"
    /\ opc' = "Done"
    /\ seen' = [seen EXCEPT !.matches = GlobNames(dir, loader)]
    /\ UNCHANGED <<vendor, fvars, uvars, jkept, fnvars, mvars, dir, dir0, wpc, wtmp, loader>>

DirNext ==
    \/ DirCreateTemp
    \/ DirWrite
    \/ DirRename
    \/ DirRemove
    \/ \E k \in 1..3 : DirDetect(k)
    \/ DirGlob

DirSpec == DirInit /\ [][DirNext]_vars

\* C37: while a credential file of one vendor is rewritten, its temporary
\* file matches the proxy pattern of no vendor and the credential file's
\* name stays in the directory; the loader of another vendor that runs at
\* the same time gets from DetectCredentialSource and from its Glob what
\* it would get of the directory without the rewrite.
C37_RewriteInvisibleToLoaders ==
    /\ CredName(vendor) \in dir
    /\ \A n \in dir \ dir0 : n = wtmp /\ \A v \in Vendors : ~Match(VendorPattern(v), n)
    /\ \A v \in Vendors : GlobNames(dir, v) = GlobNames(dir0, v)
    /\ seen.source # "" => seen.source = DetectNames(dir0)
    /\ opc = "Done" =>
          seen.matches = (IF seen.source = "native" THEN {} ELSE GlobNames(dir0, loader))

\* the Codex loader ran its Glob while the temporary file of a rewrite of
\* the Claude file was in the directory, and found its two files
C37_Witness ==
    /\ vendor = "claude"
    /\ loader = "codex"
    /\ wpc \in {"Temp", "Closed", "Cleanup"}
    /\ wtmp \in dir
    /\ opc = "Done"
    /\ seen.source = "proxy"
    /\ Cardinality(seen.matches) = 2

(***************************************************************************)
(* Part 6: the display names of the Codex proxy accounts                   *)
(* (applyCodexDisplayNames).  Texts are sequences of characters.  One      *)
(* behaviour is one call on the accounts loadCredentials made of the       *)
(* sorted matches of codex-*.json.                                         *)
(***************************************************************************)
\* strings.ToLower on the letters in use
LowerChar(c) ==
    CASE c = "U" -> "u"
      [] c = "W" -> "w"
      [] OTHER   -> c

ToLower(t) == [i \in 1..Len(t) |-> LowerChar(t[i])]

\* strings.EqualFold
EqualFold(a, b) == ToLower(a) = ToLower(b)

\* shortID: the first six bytes of an account id
shortID(value) == IF Len(value) <= 6 THEN value ELSE SubSeq(value, 1, 6)

\* the filename fragments extractEmailFromFilename yields for the sorted
\* matches: distinct file names give distinct fragments
Fragments == << <<"U">>, <<"u">>, <<"w">> >>

\* the email a credential file may carry ("" = none)
FileEmails == { << >>, <<"u">>, <<"U">> }

\* the account id a credential file may carry
FileAccountIDs ==
    { << >>, <<"1">>, <<"a", "b", "c", "d", "e", "f", "1">>,
      <<"a", "b", "c", "d", "e", "f", "2">> }

\* CodexProvider.loadCredentialFile: the account of a file that loaded
NamedAccount(fragment, email, id) ==
    [Email |-> IF email = << >> THEN fragment ELSE email,
     AccountID |-> id, SourceName |-> fragment]

\* CodexProvider.loadCredentials: the partial account of a file that failed
FailedAccount(fragment) ==
    [Email |-> fragment, AccountID |-> << >>, SourceName |-> fragment]

\* the accounts one file can give
FileAccounts(fragment) ==
    {FailedAccount(fragment)}
    \cup {NamedAccount(fragment, e, id) : e \in FileEmails, id \in FileAccountIDs}

\* a file name that is or is not among the matches
FileOptions(k) ==
    {[present |-> FALSE, acct |-> FailedAccount(<< >>)]}
    \cup {[present |-> TRUE, acct |-> a] : a \in FileAccounts(Fragments[k])}

\* the account lists loadCredentials hands to applyCodexDisplayNames, in the
\* order of the sorted matches
NamedAccountLists ==
    LET present(o) == o.present IN
    { [i \in 1..Len(SelectSeq(<<a, b, c>>, present)) |->
          SelectSeq(<<a, b, c>>, present)[i].acct] :
        a \in FileOptions(1), b \in FileOptions(2), c \in FileOptions(3) }

\* the accounts of the list whose email is the email of account a, case
\* apart
SameEmail(accts, a) ==
    {j \in DOMAIN accts : accts[j].Email # << >> /\ ToLower(accts[j].Email) = ToLower(a.Email)}

\* applyCodexDisplayNames: the account's file name differs from its email
HasAltSource(a) == a.SourceName # << >> /\ ~EqualFold(a.SourceName, a.Email)

\* applyCodexDisplayNames: the DisplayName of the i-th account
codexDisplayName(accts, i) ==
    LET a == accts[i]
        label == IF a.Email # << >> THEN a.Email
                 ELSE IF a.SourceName # << >> THEN a.SourceName
                 ELSE <<"u", "n", "k", "n", "o", "w", "n">>
        emailCount == Cardinality(SameEmail(accts, a))
        emailHasAltSource == \E j \in SameEmail(accts, a) : HasAltSource(accts[j])
    IN  IF a.Email # << >> /\ emailCount > 1
        THEN IF HasAltSource(a) THEN a.SourceName
             ELSE IF ~emailHasAltSource /\ a.AccountID # << >>
             THEN a.Email \o <<"#">> \o shortID(a.AccountID)
             ELSE label
        ELSE label

applyCodexDisplayNames(accts) == [i \in DOMAIN accts |-> codexDisplayName(accts, i)]

NamesInit ==
    /\ vendor = "codex"
    /\ FetchOff
    /\ UsageOff
    /\ JwtOff
    /\ DirOff
    /\ MainOff
    /\ fnpc = "Loaded"
    /\ fnIn \in {l \in NamedAccountLists : Len(l) \in 1..MaxCodexFiles}
    /\ fnOut = "none"

\* loadCredentials calls applyCodexDisplayNames on the accounts it loaded
ApplyDisplayNames ==
    /\ fnpc = "Loaded"
    /\ fnpc' = "Named"
    /\ fnOut' = applyCodexDisplayNames(fnIn)
    /\ UNCHANGED <<vendor, fvars, uvars, jkept, dvars, mvars, fnIn>>

NamesNext == ApplyDisplayNames

NamesSpec == NamesInit /\ [][NamesNext]_vars

\* C38: after applyCodexDisplayNames every account has a non-empty display
\* name, and the accounts that share an email (compared without case) have
\* pairwise distinct display names: the filename fragment where it differs
\* from the email, else the email followed by '#' and the short account id.
C38_DistinctDisplayNames ==
    fnpc = "Named" =>
        \A i \in DOMAIN fnIn :
            /\ fnOut[i] # << >>
            /\ Cardinality(SameEmail(fnIn, fnIn[i])) > 1 =>
                  /\ \A j \in SameEmail(fnIn, fnIn[i]) : j # i => fnOut[j] # fnOut[i]
                  /\ fnOut[i] = IF HasAltSource(fnIn[i]) THEN fnIn[i].SourceName
                                ELSE fnIn[i].Email \o <<"#">> \o shortID(fnIn[i].AccountID)

(***************************************************************************)
(* Part 7: main's aggregation of the providers' rows.  main walks          *)
(* providerFactories; a constructor that fails gives a warning row, else   *)
(* FetchUsage runs in a goroutine that appends its rows (or a warning row) *)
(* to allRows under the mutex; main waits for the WaitGroup and goes on to *)
(* filter, sort and render.  An append reads allRows and then writes it.   *)
(***************************************************************************)
providerFactories == <<"claude", "codex", "gemini">>

Threads == {"main"} \cup Vendors

\* the warning row main makes of an error of provider v
MainWarningRow(v) == [Provider |-> v, IsWarning |-> TRUE, n |-> 0]

\* the rows FetchUsage of provider v returned
ProviderRows(v, k) == [i \in 1..k |-> [Provider |-> v, IsWarning |-> FALSE, n |-> i]]

\* what the constructor and FetchUsage of a provider can give
Returns ==
    {[kind |-> "ctorErr", rows |-> 0], [kind |-> "fetchErr", rows |-> 0]}
    \cup {[kind |-> "rows", rows |-> k] : k \in 0..MaxRows}

\* the rows main appends for provider v
Block(v) ==
    IF ret[v].kind = "none" THEN << >>
    ELSE IF ret[v].kind \in {"ctorErr", "fetchErr"} THEN <<MainWarningRow(v)>>
    ELSE ProviderRows(v, ret[v].rows)

\* the provider whose rows thread t appends
ProviderOf(t) == IF t = "main" THEN providerFactories[mi] ELSE t

\* main's position after the loop body for providerFactories[mi]
AfterFactory == IF mi < Len(providerFactories) THEN "Loop" ELSE "Wait"

MainInit ==
    /\ vendor = providerFactories[1]
    /\ FetchOff
    /\ UsageOff
    /\ JwtOff
    /\ DirOff
    /\ fnpc = "Off"
    /\ fnIn = "none"
    /\ fnOut = "none"
    /\ allRows = << >>
    /\ mu = ""
    /\ wg = 0
    /\ mi = 1
    /\ tpc = [t \in Threads |-> IF t = "main" THEN "Loop" ELSE "NotStarted"]
    /\ snap = [t \in Threads |-> << >>]
    /\ ret = [v \in Vendors |-> [kind |-> "none", rows |-> 0]]

\* main: pf.factory() of the next provider; on an error main goes to append
\* the warning row, else wg.Add(1) and the goroutine starts
MainFactory ==
    /\ tpc["main"] = "Loop"
    /\ LET v == providerFactories[mi] IN
       \/ /\ ret' = [ret EXCEPT ![v] = [kind |-> "ctorErr", rows |-> 0]]
          /\ tpc' = [tpc EXCEPT !["main"] = "Lock"]
          /\ UNCHANGED <<wg, mi>>
       \/ /\ wg' = wg + 1
          /\ tpc' = [tpc EXCEPT !["main"] = AfterFactory, ![v] = "Fetch"]
          /\ mi' = mi + 1
          /\ UNCHANGED ret
    /\ UNCHANGED <<vendor, fvars, uvars, jkept, fnvars, dvars, allRows, mu, snap>>

\* the goroutine of provider v: p.FetchUsage(ctx) returns
FetchUsageReturns(v) ==
    /\ tpc[v] = "Fetch"
    /\ \E r \in Returns \ {[kind |-> "ctorErr", rows |-> 0]} :
          ret' = [ret EXCEPT ![v] = r]
    /\ tpc' = [tpc EXCEPT ![v] = "Lock"]
    /\ UNCHANGED <<vendor, fvars, uvars, jkept, fnvars, dvars, allRows, mu, wg, mi, snap>>

\* variant: mu.Lock() returns although another thread holds the mutex
MuLockNoWait(t) ==
    /\ tpc[t] = "Lock"
    /\ mu' = t
    /\ tpc' = [tpc EXCEPT ![t] = "Read"]
    /\ UNCHANGED <<vendor, fvars, uvars, jkept, fnvars, dvars, allRows, wg, mi, snap, ret>>

\* mu.Lock()
MuLock(t) ==
    /\ tpc[t] = "Lock"
    /\ mu = ""
    /\ mu' = t
    /\ tpc' = [tpc EXCEPT ![t] = "Read"]
    /\ UNCHANGED <<vendor, fvars, uvars, jkept, fnvars, dvars, allRows, wg, mi, snap, ret>>

\* append(allRows, ...): the read of allRows
AppendRead(t) ==
    /\ tpc[t] = "Read"
    /\ snap' = [snap EXCEPT ![t] = allRows]
    /\ tpc' = [tpc EXCEPT ![t] = "Write"]
    /\ UNCHANGED <<vendor, fvars, uvars, jkept, fnvars, dvars, allRows, mu, wg, mi, ret>>

\* allRows = append(allRows, ...): the assignment
AppendWrite(t) ==
    /\ tpc[t] = "Write"
    /\ allRows' = snap[t] \o Block(ProviderOf(t))
    /\ tpc' = [tpc EXCEPT ![t] = "Unlock"]
    /\ UNCHANGED <<vendor, fvars, uvars, jkept, fnvars, dvars, mu, wg, mi, snap, ret>>

\* mu.Unlock(); main continues its loop, a goroutine ends with wg.Done()
MuUnlock(t) ==
    /\ tpc[t] = "Unlock"
    /\ mu' = ""
    /\ IF t = "main"
       THEN /\ tpc' = [tpc EXCEPT ![t] = AfterFactory]
            /\ mi' = mi + 1
            /\ UNCHANGED wg
       ELSE /\ tpc' = [tpc EXCEPT ![t] = "Done"]
            /\ wg' = wg - 1
            /\ UNCHANGED mi
    /\ UNCHANGED <<vendor, fvars, uvars, jkept, fnvars, dvars, allRows, snap, ret>>

\* wg.Wait() returns
MainWait ==
    /\ tpc["main"] = "Wait"
    /\ wg = 0
    /\ tpc' = [tpc EXCEPT !["main"] = "Filter"]
    /\ UNCHANGED <<vendor, fvars, uvars, jkept, fnvars, dvars, allRows, mu, wg, mi, snap, ret>>

\* main hands allRows to filterRows, sortRows and RenderTable
MainRender ==
    /\ tpc["main"] = "Filter"
    /\ snap' = [snap EXCEPT !["main"] = allRows]
    /\ tpc' = [tpc EXCEPT !["main"] = "Done"]
    /\ UNCHANGED <<vendor, fvars, uvars, jkept, fnvars, dvars, allRows, mu, wg, mi, ret>>

MainNext ==
    \/ MainFactory
    \/ \E v \in Vendors : FetchUsageReturns(v)
    \/ \E t \in Threads : MuLock(t)
    \/ \E t \in Threads : AppendRead(t)
    \/ \E t \in Threads : AppendWrite(t)
    \/ \E t \in Threads : MuUnlock(t)
    \/ MainWait
    \/ MainRender

MainSpec == MainInit /\ [][MainNext]_vars

\* the orders in which the providers' blocks can stand in allRows
BlockOrders ==
    {p \in [1..3 -> Vendors] : \A i, j \in 1..3 : i # j => p[i] # p[j]}

\* C39: when main filters, sorts and renders, every goroutine it started
\* has finished, and allRows is the blocks of the three providers one after
\* the other in some order: each provider's rows once and together, and
\* exactly one warning row for a provider whose constructor or FetchUsage
\* failed.
C39_AggregationComplete ==
    /\ \A v \in Vendors :
          ret[v].kind \in {"ctorErr", "fetchErr"} => Block(v) = <<MainWarningRow(v)>>
    /\ tpc["main"] \in {"Filter", "Done"} =>
          /\ wg = 0
          /\ mu = ""
          /\ \A v \in Vendors : ret[v].kind # "none"
          /\ \A v \in Vendors : tpc[v] = (IF ret[v].kind = "ctorErr" THEN "NotStarted" ELSE "Done")
          /\ \E p \in BlockOrders : allRows = Block(p[1]) \o Block(p[2]) \o Block(p[3])
    /\ tpc["main"] = "Done" => snap["main"] = allRows

\* the Claude constructor failed, FetchUsage of Codex failed, Gemini gave its
\* rows, which stand before the warning row of Codex, and main rendered
C39_Witness ==
    /\ tpc["main"] = "Done"
    /\ ret["claude"].kind = "ctorErr"
    /\ ret["codex"].kind = "fetchErr"
    /\ ret["gemini"] = [kind |-> "rows", rows |-> MaxRows]
    /\ Len(allRows) = 2 + MaxRows
    /\ allRows[1] = MainWarningRow("claude")
    /\ allRows[Len(allRows)] = MainWarningRow("codex")

(***************************************************************************)
(* Part 8: TruncateBody.  A body is a sequence of bytes; the bytes in use  *)
(* are 'a', the lead bytes C3 (two-byte rune), E4 (three-byte rune) and F0 *)
(* (four-byte rune, whose second byte must be 90..BF) and the continuation *)
(* bytes A9 and 80.                                                        *)
(***************************************************************************)
Bytes == {97, 195, 228, 240, 169, 128}

\* a continuation byte: 80..BF
IsCont(b) == b >= 128 /\ b <= 191

\* utf8.DecodeRune: the number of bytes of the first rune of p; an invalid
\* or incomplete encoding counts as one byte (RuneError), an empty p as 0
DecodeRuneSize(p) ==
    IF p = << >> THEN 0
    ELSE LET b == p[1]
             lo2 == CASE b = 224 -> 160 [] b = 240 -> 144 [] OTHER -> 128
             hi2 == CASE b = 237 -> 159 [] b = 244 -> 143 [] OTHER -> 191
             n == IF b < 128 THEN 1
                  ELSE IF b >= 194 /\ b <= 223 THEN 2
                  ELSE IF b >= 224 /\ b <= 239 THEN 3
                  ELSE IF b >= 240 /\ b <= 244 THEN 4
                  ELSE 0
         IN  IF n = 0 \/ Len(p) < n THEN 1
             ELSE IF n = 1 THEN 1
             ELSE IF p[2] < lo2 \/ p[2] > hi2 THEN 1
             ELSE IF \E i \in 3..n : ~IsCont(p[i]) THEN 1
             ELSE n

\* the bytes of "..."
Ellipsis == <<46, 46, 46>>

RECURSIVE TruncateEnd(_, _, _)
\* TruncateBody's loop: the value of end when it is left
TruncateEnd(body, maxLen, end) ==
    IF end < maxLen
    THEN LET size == DecodeRuneSize(SubSeq(body, end + 1, Len(body))) IN
         IF end + size > maxLen THEN end
         ELSE TruncateEnd(body, maxLen, end + size)
    ELSE end

\* variant: the body is cut after maxLen bytes
TruncateBodyAtByte(body, maxLen) ==
    IF Len(body) <= maxLen THEN body
    ELSE SubSeq(body, 1, maxLen) \o Ellipsis

\* TruncateBody(body, maxLen)
TruncateBody(body, maxLen) ==
    IF Len(body) <= maxLen THEN body
    ELSE SubSeq(body, 1, TruncateEnd(body, maxLen, 0)) \o Ellipsis

\* the bodies of at most MaxBody bytes
Bodies == UNION {[1..n -> Bytes] : n \in 0..MaxBody}

TruncInit ==
    /\ vendor = "claude"
    /\ FetchOff
    /\ UsageOff
    /\ JwtOff
    /\ DirOff
    /\ MainOff
    /\ fnpc = "Body"
    /\ fnIn \in [body : Bodies, maxLen : 0..MaxBody]
    /\ fnOut = "none"

\* a status error is built of a response body
Truncate ==
    /\ fnpc = "Body"
    /\ fnpc' = "Truncated"
    /\ fnOut' = TruncateBody(fnIn.body, fnIn.maxLen)
    /\ UNCHANGED <<vendor, fvars, uvars, jkept, dvars, mvars, fnIn>>

TruncNext == Truncate

TruncSpec == TruncInit /\ [][TruncNext]_vars

RECURSIVE RuneBoundaries(_, _)
\* the offsets of body at which a rune ends, from offset k on
RuneBoundaries(body, k) ==
    IF k >= Len(body) THEN {k}
    ELSE {k} \cup RuneBoundaries(body, k + DecodeRuneSize(SubSeq(body, k + 1, Len(body))))

\* the longest prefix of body of at most maxLen bytes that ends where a
\* rune ends
LongestRunePrefix(body, maxLen) ==
    LET ks == {k \in RuneBoundaries(body, 0) : k <= maxLen}
        best == CHOOSE k \in ks : \A j \in ks : j <= k
    IN  SubSeq(body, 1, best)

\* C40: TruncateBody returns a body of at most maxLen bytes as it is, and
\* of a longer body the longest prefix of at most maxLen bytes that ends at
\* the end of a rune, followed by "...": the result never holds more than
\* maxLen bytes of the body.
C40_TruncateAtRuneBoundary ==
    fnpc = "Truncated" =>
        IF Len(fnIn.body) <= fnIn.maxLen
        THEN fnOut = fnIn.body
        ELSE /\ fnOut = LongestRunePrefix(fnIn.body, fnIn.maxLen) \o Ellipsis
             /\ Len(fnOut) <= fnIn.maxLen + Len(Ellipsis)

\* 'a' and a three-byte rune cut to three bytes: the rune is dropped whole
C40_Witness ==
    /\ fnpc = "Truncated"
    /\ fnIn = [body |-> <<97, 228, 169, 169>>, maxLen |-> 3]
    /\ fnOut = <<97>> \o Ellipsis

====
